---------------------------- MODULE Spec2Model ----------------------------
(***************************************************************************)
(* Model of the X12 835/837P decoding and claim-matching scripts:          *)
(*   scripts/edi_utils.py       detect_delimiters, split_composite,        *)
(*                              parse_edi_content                          *)
(*   scripts/claim_matching.py  claim_key_candidates, match_claim_header   *)
(*   scripts/parse_835.py       parse_cas_adjustments, extract_payments,   *)
(*                              parse_folder                               *)
(*   scripts/parse_837p.py      get_claim_blocks, extract_claim,           *)
(*                              build_parse_summary, parse_837p_file       *)
(*   scripts/loader_persistence.py  upsert_claim_header,                   *)
(*                              upsert_claim_payment, clear_*_children     *)
(*   scripts/load_to_supabase.py    load_837_file, load_835_file           *)
(*                                                                         *)
(* A Python str is modelled as a sequence of one-character strings, so     *)
(* that strip, upper, find, split and the regular-expression substitution  *)
(* are computed character by character.  Python's None is the value None   *)
(* below, which is no sequence of characters.                              *)
(*                                                                         *)
(* Each component has its own specification (SpecKeys, SpecMatch, SpecCas, *)
(* SpecDelim, SpecPay, SpecSplit, SpecEdi, SpecClaim, SpecFolder,          *)
(* SpecCasLoop, SpecTwice, SpecLoad, SpecRecord, SpecFile, SpecWorkers);   *)
(* the variables of the other components stay at their idle value.         *)
(***************************************************************************)
EXTENDS Integers, Sequences, FiniteSets, TLC

VARIABLES
    \* claim_key_candidates(value)
    value, candidates, kpc,
    \* match_claim_header(client, pcn, payer_claim_control_number)
    pcn, payer_claim_control_number, claim_headers, claim_references,
    qualifier_priority, match_result, mpc,
    \* parse_cas_adjustments(seg, summary): the segment, the entries and the
    \* summary's two sets so far, idx of the while loop
    seg, adjustments, cas_summary, cas_idx, cpc,
    \* detect_delimiters(content)
    content, delimiters, dpc,
    \* extract_payments(segments, file_name, component_sep): the arguments
    \* (component_separator is component_sep), the loop position, the locals
    segments, component_separator, seg_index, payments, current_payment,
    current_svc, payer_info, check_info, summary, parse_summary, ppc,
    \* split_composite(value, component_sep)
    composite, declared_sep, parts, spc,
    \* parse_edi_content(content): the segments the document was joined from, the
    \* document, the returned segments and delimiters
    edi_source, edi_content, edi_segments, edi_delimiters, epc,
    \* parse_837p_file: the tokenized document and its delimiters, the claim
    \* blocks, the metadata and the file-level billing provider, the block
    \* being extracted and the position in it
    file_segments, file_delimiters, blocks, metadata, billing_provider,
    block_index, block_pos,
    \* extract_claim(block, file_name, component_sep): the locals
    claim, lines, diagnoses, dates_header, dates_line, providers, references,
    current_line_number, in_header, sbr_data, payer_data,
    \* parse_837p_file: the claim records so far and the returned record
    claims, file_result, xpc,
    \* parse_folder(folder_path) of parse_835 or parse_837p: which of the two,
    \* what os.listdir returns (each entry with what parsing it does), the error
    \* handler of sys.stdout, the position in the listing, the results, the
    \* exception being handled
    folder_type, listing, stdout_errors, folder_index, results, pending_error, fpc,
    \* a second decoding of the same segments: the hash seed of the running
    \* interpreter, the number of the run, what the first run returned with the
    \* hash seed it ran under
    hash_seed, run_no, first_run,
    \* the loader: the store (the rows of each table, the last id handed out per
    \* table), whether the scoring model artifact exists, the optional columns
    \* of claim_payments that were detected, the number of calls made, the
    \* latest call and what it returned
    tables, sequences, model_exists, optional_columns, calls, last_call, returned,
    \* load_837_file / load_835_file record by record: where the call stands,
    \* the records tried so far, and file_log_id, loaded, errors and the other
    \* locals
    load_pc, record_index, load_acc,
    \* two workers in upsert_claim_header / upsert_claim_payment, a store call
    \* per step: where each stands, its payload, what its select answered and
    \* what it returned
    worker_pc, worker_payload, worker_existing, worker_returned

keysVars  == <<value, candidates, kpc>>
matchVars == <<pcn, payer_claim_control_number, claim_headers,
               claim_references, qualifier_priority, match_result, mpc>>
casVars   == <<seg, adjustments, cas_summary, cas_idx, cpc>>
delimVars == <<content, delimiters, dpc>>
payVars   == <<segments, component_separator, seg_index, payments, current_payment,
               current_svc, payer_info, check_info, summary, parse_summary, ppc>>
splitVars == <<composite, declared_sep, parts, spc>>
earlierVars == <<keysVars, matchVars, casVars, delimVars, payVars>>
ediVars   == <<edi_source, edi_content, edi_segments, edi_delimiters, epc>>
claimVars == <<file_segments, file_delimiters, blocks, metadata, billing_provider,
               block_index, block_pos, claim, lines, diagnoses, dates_header,
               dates_line, providers, references, current_line_number, in_header,
               sbr_data, payer_data, claims, file_result, xpc>>
folderVars == <<folder_type, listing, stdout_errors, folder_index, results,
                pending_error, fpc>>
twiceVars == <<hash_seed, run_no, first_run>>
loadVars  == <<tables, sequences, model_exists, optional_columns, calls, last_call,
               returned>>
stepVars  == <<load_pc, record_index, load_acc, worker_pc, worker_payload,
               worker_existing, worker_returned>>
laterVars == <<splitVars, ediVars, claimVars, folderVars, twiceVars, loadVars, stepVars>>
notClaimVars == <<earlierVars, splitVars, ediVars, folderVars, twiceVars, loadVars,
                  stepVars>>
notLoadVars == <<earlierVars, splitVars, ediVars, claimVars, folderVars, twiceVars,
                 stepVars>>
notStoreVars == <<earlierVars, splitVars, ediVars, claimVars, folderVars, twiceVars>>
vars      == <<earlierVars, laterVars>>

-----------------------------------------------------------------------------
(* Python values *)

None == <<"None">>

Idle == "idle"

\* The strings of length 0..n over the characters cs.
RECURSIVE StringsUpTo(_, _)
StringsUpTo(cs, n) ==
    IF n = 0 THEN {<<>>}
    ELSE LET shorter == StringsUpTo(cs, n - 1)
         IN  shorter \cup {Append(s, c) : s \in shorter, c \in cs}

Range(s) == {s[i] : i \in 1..Len(s)}

-----------------------------------------------------------------------------
(* str methods used by the scripts, on ASCII *)

Digits == {"0", "1", "2", "3", "4", "5", "6", "7", "8", "9"}

LowerChars == <<"a", "b", "c", "d", "e", "f", "g", "h", "i", "j", "k", "l", "m",
                "n", "o", "p", "q", "r", "s", "t", "u", "v", "w", "x", "y", "z">>

UpperChars == <<"A", "B", "C", "D", "E", "F", "G", "H", "I", "J", "K", "L", "M",
                "N", "O", "P", "Q", "R", "S", "T", "U", "V", "W", "X", "Y", "Z">>

Whitespace == {" ", "\t", "\n", "\r"}

\* str.upper() on one character
UpperChar(c) ==
    IF \E i \in 1..Len(LowerChars) : LowerChars[i] = c
    THEN UpperChars[CHOOSE i \in 1..Len(LowerChars) : LowerChars[i] = c]
    ELSE c

\* str.upper()
Upper(s) == [i \in 1..Len(s) |-> UpperChar(s[i])]

\* str.lstrip(chars): drop the leading characters that are in cs
RECURSIVE LStrip(_, _)
LStrip(s, cs) ==
    IF s # <<>> /\ Head(s) \in cs THEN LStrip(Tail(s), cs) ELSE s

\* str.rstrip(chars)
RECURSIVE RStrip(_, _)
RStrip(s, cs) ==
    IF s # <<>> /\ s[Len(s)] \in cs THEN RStrip(SubSeq(s, 1, Len(s) - 1), cs) ELSE s

\* str.strip()
Strip(s) == RStrip(LStrip(s, Whitespace), Whitespace)

\* re.sub(r"[^A-Z0-9]", "", token)
KeepAlnumUpper(s) == SelectSeq(s, LAMBDA c : c \in Digits \cup Range(UpperChars))


-----------------------------------------------------------------------------
(* claim_matching.py: candidate keys *)

\* normalize_claim_key(value)
normalize_claim_key(v) ==
    IF v = None THEN <<>> ELSE KeepAlnumUpper(Upper(Strip(v)))

\* A slip: the normalized forms are appended without the "not in candidates" test.
claim_key_candidates_no_dedup(v) ==
    IF v = None THEN <<>>
    ELSE LET key == Strip(v)
             normalized == normalize_claim_key(key)
             c1 == IF normalized # <<>> THEN <<key, normalized>> ELSE <<key>>
             no_leading_zeros == LStrip(key, {"0"})
             normalized_no_zeros == normalize_claim_key(no_leading_zeros)
         IN  IF key = <<>> THEN <<>>
             ELSE IF no_leading_zeros # <<>> /\ no_leading_zeros # key
                  THEN IF normalized_no_zeros # <<>>
                       THEN c1 \o <<no_leading_zeros, normalized_no_zeros>>
                       ELSE Append(c1, no_leading_zeros)
                  ELSE c1

\* claim_key_candidates(value)
claim_key_candidates(v) ==
    IF v = None THEN <<>>
    ELSE LET key == Strip(v)
             normalized == normalize_claim_key(key)
             c1 == IF normalized # <<>> /\ normalized \notin Range(<<key>>)
                   THEN <<key, normalized>> ELSE <<key>>
             no_leading_zeros == LStrip(key, {"0"})
             c2 == Append(c1, no_leading_zeros)
             normalized_no_zeros == normalize_claim_key(no_leading_zeros)
         IN  IF key = <<>> THEN <<>>
             ELSE IF no_leading_zeros # <<>> /\ no_leading_zeros # key
                  THEN IF normalized_no_zeros # <<>>
                          /\ normalized_no_zeros \notin Range(c2)
                       THEN Append(c2, normalized_no_zeros)
                       ELSE c2
                  ELSE c1

\* Bounds of the key inputs: every string of up to MaxKeyLen characters of KeyChars,
\* None, and the documented example "00-ab 123".
MaxKeyLen == 3

KeyChars == {"0", "1", "a", "A", "-", " "}

KeyExample == <<"0", "0", "-", "a", "b", " ", "1", "2", "3">>

KeyInputs(n) == StringsUpTo(KeyChars, n) \cup {None, KeyExample}

KeysIdle == value = Idle /\ candidates = Idle /\ kpc = Idle

KeysInit ==
    /\ value \in KeyInputs(MaxKeyLen)
    /\ candidates = <<>>
    /\ kpc = "call"

\* One call of claim_key_candidates.
ClaimKeyCandidates ==
    /\ kpc = "call"
    /\ candidates' = claim_key_candidates(value)
    /\ kpc' = "done"
    /\ UNCHANGED value

KeysNext ==
    ClaimKeyCandidates /\ UNCHANGED <<matchVars, casVars, delimVars, payVars, laterVars>>

-----------------------------------------------------------------------------
(* C6 *)

\* A sequence without its later repetitions (first occurrences kept).
RECURSIVE DedupFirst(_)
DedupFirst(s) ==
    IF s = <<>> THEN <<>>
    ELSE LET init == DedupFirst(SubSeq(s, 1, Len(s) - 1))
         IN  IF s[Len(s)] \in Range(init) THEN init ELSE Append(init, s[Len(s)])

\* The candidates the documentation lists for a trimmed key, in its order: raw,
\* normalized, zero-stripped (if non-empty and different from raw), normalized
\* zero-stripped; empty forms left out.
WantedKeys(key) ==
    LET nlz == LStrip(key, {"0"})
        all == <<key, normalize_claim_key(key)>>
               \o (IF nlz # <<>> /\ nlz # key
                   THEN <<nlz, normalize_claim_key(nlz)>> ELSE <<>>)
    IN  DedupFirst(SelectSeq(all, LAMBDA k : k # <<>>))

\* C6: claim_key_candidates(v) is empty for None or a blank value; otherwise it is
\* the list raw, normalized, zero-stripped, normalized zero-stripped with only first
\* occurrences kept: it starts with the trimmed raw value and holds no duplicate and
\* no empty string.
C6_CandidateOrder ==
    kpc = "done" =>
        IF value = None \/ Strip(value) = <<>>
        THEN candidates = <<>>
        ELSE /\ candidates = WantedKeys(Strip(value))
             /\ candidates[1] = Strip(value)
             /\ \A i, j \in 1..Len(candidates) : i # j => candidates[i] # candidates[j]
             /\ \A i \in 1..Len(candidates) : candidates[i] # <<>>

\* The documented example: all four forms are produced, in order.
C6_Witness ==
    /\ kpc = "done"
    /\ value = KeyExample
    /\ candidates = << KeyExample,
                       <<"0", "0", "A", "B", "1", "2", "3">>,
                       <<"-", "a", "b", " ", "1", "2", "3">>,
                       <<"A", "B", "1", "2", "3">> >>

-----------------------------------------------------------------------------
(* claim_matching.py: match_claim_header *)

\* pipeline_models.MATCH_STRATEGY_KEYS
MATCH_STRATEGY_KEYS == {"clp01", "clp07_original_claim_id", "clp07_ref", "unmatched"}

\* pipeline_models.MatchResult.  A reason code is the tuple of the parts of its
\* text: f"MATCHED_REF_{qualifier}" is <<"MATCHED_REF_", qualifier>>.
MatchResult(id, strategy, reason) ==
    [claim_header_id |-> id, strategy |-> strategy, reason_code |-> reason]

\* Python truthiness of a str-or-None argument ("if pcn")
Truthy(v) == v # None /\ v # <<>>

\* client.table("claim_headers").select("id").eq("claim_id", c).limit(1): the rows
\* the store may answer with (it returns one of them, in no stated order).
RowsByClaimId(headers, c) == {h \in headers : h.claim_id = c}

\* ... .eq("original_claim_id", c).limit(1)
RowsByOriginalClaimId(headers, c) == {h \in headers : h.original_claim_id = c}

\* client.table("claim_references") ... .eq("reference_qualifier", q)
\*                                       .eq("reference_value", c).limit(1)
RowsByQualifiedRef(refs, q, c) ==
    {r \in refs : r.reference_qualifier = q /\ r.reference_value = c}

\* ... .eq("reference_value", c).limit(1)
RowsByRefValue(refs, c) == {r \in refs : r.reference_value = c}

\* for candidate in normalized_pcn_candidates: the results of the first candidate
\* whose query returns rows
RECURSIVE DirectLoop(_, _)
DirectLoop(headers, cands) ==
    IF cands = <<>> THEN {}
    ELSE LET direct == RowsByClaimId(headers, Head(cands))
         IN  IF direct # {}
             THEN {MatchResult(h.id, "clp01", <<"MATCHED_CLAIM_ID">>) : h \in direct}
             ELSE DirectLoop(headers, Tail(cands))

\* Fallback 1 loop
RECURSIVE OriginalLoop(_, _)
OriginalLoop(headers, cands) ==
    IF cands = <<>> THEN {}
    ELSE LET original_ref == RowsByOriginalClaimId(headers, Head(cands))
         IN  IF original_ref # {}
             THEN {MatchResult(h.id, "clp07_original_claim_id",
                               <<"MATCHED_ORIGINAL_CLAIM_ID">>) : h \in original_ref}
             ELSE OriginalLoop(headers, Tail(cands))

\* Fallback 2, inner loop: for qualifier in qualifier_priority
RECURSIVE QualifierLoop(_, _, _)
QualifierLoop(refs, candidate, quals) ==
    IF quals = <<>> THEN {}
    ELSE LET ref_match == RowsByQualifiedRef(refs, Head(quals), candidate)
         IN  IF ref_match # {}
             THEN {MatchResult(r.claim_header_id, "clp07_ref",
                               <<"MATCHED_REF_", Head(quals)>>) : r \in ref_match}
             ELSE QualifierLoop(refs, candidate, Tail(quals))

\* A slip: the loops of fallback 2 nested the other way round, the qualifiers
\* outside and the candidates inside.
RECURSIVE CandidateLoop(_, _, _)
CandidateLoop(refs, cands, qualifier) ==
    IF cands = <<>> THEN {}
    ELSE LET ref_match == RowsByQualifiedRef(refs, qualifier, Head(cands))
         IN  IF ref_match # {}
             THEN {MatchResult(r.claim_header_id, "clp07_ref",
                               <<"MATCHED_REF_", qualifier>>) : r \in ref_match}
             ELSE CandidateLoop(refs, Tail(cands), qualifier)

RECURSIVE QualifiedRefLoopByQualifier(_, _, _)
QualifiedRefLoopByQualifier(refs, cands, quals) ==
    IF quals = <<>> THEN {}
    ELSE LET inner == CandidateLoop(refs, cands, Head(quals))
         IN  IF inner # {} THEN inner
             ELSE QualifiedRefLoopByQualifier(refs, cands, Tail(quals))

\* Fallback 2, outer loop: for candidate in normalized_clp07_candidates
RECURSIVE QualifiedRefLoop(_, _, _)
QualifiedRefLoop(refs, cands, quals) ==
    IF cands = <<>> THEN {}
    ELSE LET inner == QualifierLoop(refs, Head(cands), quals)
         IN  IF inner # {} THEN inner
             ELSE QualifiedRefLoop(refs, Tail(cands), quals)

\* Fallback 3 loop
RECURSIVE AnyRefLoop(_, _)
AnyRefLoop(refs, cands) ==
    IF cands = <<>> THEN {}
    ELSE LET ref_match == RowsByRefValue(refs, Head(cands))
         IN  IF ref_match # {}
             THEN {MatchResult(r.claim_header_id, "clp07_ref",
                               <<"MATCHED_REF_", "ANY">>) : r \in ref_match}
             ELSE AnyRefLoop(refs, Tail(cands))

\* The final ladder of reason codes when nothing matched.
Unmatched(p, c, pcands, ccands) ==
    IF Truthy(p) /\ pcands = <<>>
    THEN MatchResult(None, "unmatched", <<"UNUSABLE_CLP01">>)
    ELSE IF Truthy(c) /\ ccands = <<>>
    THEN MatchResult(None, "unmatched", <<"UNUSABLE_CLP07">>)
    ELSE IF Truthy(p)
    THEN MatchResult(None, "unmatched", <<"NO_MATCH_CLP01_CLP07">>)
    ELSE IF Truthy(c)
    THEN MatchResult(None, "unmatched", <<"NO_MATCH_CLP07">>)
    ELSE MatchResult(None, "unmatched", <<"NO_KEYS">>)

\* A slip: the original-claim-id fallback is tried before the direct match.
match_claim_header_fallback_first(headers, refs, quals, p, c) ==
    LET pcands == claim_key_candidates(p)
        ccands == claim_key_candidates(c)
        s1 == DirectLoop(headers, pcands)
        s2 == OriginalLoop(headers, ccands)
        s3 == QualifiedRefLoop(refs, ccands, quals)
        s4 == AnyRefLoop(refs, ccands)
    IN  IF s2 # {} THEN s2
        ELSE IF s1 # {} THEN s1
        ELSE IF s3 # {} THEN s3
        ELSE IF s4 # {} THEN s4
        ELSE {Unmatched(p, c, pcands, ccands)}

\* A slip: a matched reference row is reported with the strategy of the reason code.
match_claim_header_ref_strategy(headers, refs, quals, p, c) ==
    LET pcands == claim_key_candidates(p)
        ccands == claim_key_candidates(c)
        s1 == DirectLoop(headers, pcands)
        s2 == OriginalLoop(headers, ccands)
        s3 == QualifiedRefLoop(refs, ccands, quals)
        s4 == AnyRefLoop(refs, ccands)
    IN  IF s1 # {} THEN s1
        ELSE IF s2 # {} THEN s2
        ELSE IF s3 # {} THEN s3
        ELSE IF s4 # {} THEN {[r EXCEPT !.strategy = "clp07_ref_any"] : r \in s4}
        ELSE {Unmatched(p, c, pcands, ccands)}

\* match_claim_header(client, pcn, payer_claim_control_number): the results it can
\* return, one per row a limit(1) query may answer with.
match_claim_header(headers, refs, quals, p, c) ==
    LET pcands == claim_key_candidates(p)
        ccands == claim_key_candidates(c)
        s1 == DirectLoop(headers, pcands)
        s2 == OriginalLoop(headers, ccands)
        s3 == QualifiedRefLoop(refs, ccands, quals)
        s4 == AnyRefLoop(refs, ccands)
    IN  IF s1 # {} THEN s1
        ELSE IF s2 # {} THEN s2
        ELSE IF s3 # {} THEN s3
        ELSE IF s4 # {} THEN s4
        ELSE {Unmatched(p, c, pcands, ccands)}

\* Inputs of the matcher: key values, store contents, configured priorities.
KeyA  == <<"A">>
Key0A == <<"0", "A">>
KeyB  == <<"B">>

MatchKeyInputs == {None, <<>>, <<" ">>, Key0A, KeyB}

\* claim_headers.id values (the decimal text of the integer key, so that an id
\* and None compare).
HeaderIds == {<<"1">>, <<"2">>}

HeaderRow(i, c, o) == [id |-> i, claim_id |-> c, original_claim_id |-> o]

HeaderRows == {HeaderRow(i, c, o) : i \in HeaderIds, c \in {KeyA, Key0A}, o \in {None, KeyA}}

\* The contents of claim_headers: at most one row per id (the primary key).
HeaderStores == {t \in SUBSET HeaderRows : \A a, b \in t : a.id = b.id => a = b}

RefRow(h, q, v) ==
    [claim_header_id |-> h, reference_qualifier |-> q, reference_value |-> v]

RefRows == {RefRow(<<"1">>, "1K", KeyA), RefRow(<<"2">>, "D9", Key0A),
            RefRow(<<"2">>, "D9", KeyA), RefRow(<<"1">>, "ZZ", KeyA),
            RefRow(<<"2">>, "ZZ", Key0A), RefRow(<<"1">>, "1K", KeyB)}

\* load_matching_config(): the default order, or a configured one.
DefaultQualifierPriority == <<"1K", "D9", "F8", "9A">>

QualifierConfigs == {DefaultQualifierPriority, <<"D9", "1K">>}

MatchIdle ==
    /\ pcn = Idle /\ payer_claim_control_number = Idle /\ claim_headers = Idle
    /\ claim_references = Idle /\ qualifier_priority = Idle
    /\ match_result = Idle /\ mpc = Idle

MatchInit ==
    /\ pcn \in MatchKeyInputs
    /\ payer_claim_control_number \in MatchKeyInputs
    /\ claim_headers \in HeaderStores
    /\ claim_references \in SUBSET RefRows
    /\ qualifier_priority \in QualifierConfigs
    /\ match_result = MatchResult(None, "pending", <<"PENDING">>)
    /\ mpc = "call"

\* One call of match_claim_header against the store.
MatchClaimHeader ==
    /\ mpc = "call"
    /\ match_result' \in match_claim_header(claim_headers, claim_references,
                                            qualifier_priority, pcn,
                                            payer_claim_control_number)
    /\ mpc' = "done"
    /\ UNCHANGED <<pcn, payer_claim_control_number, claim_headers,
                   claim_references, qualifier_priority>>

MatchNext ==
    MatchClaimHeader /\ UNCHANGED <<keysVars, casVars, delimVars, payVars, laterVars>>

-----------------------------------------------------------------------------
(* C2, C4, C5 *)

PcnCandidates == Range(claim_key_candidates(pcn))
Clp07Candidates == Range(claim_key_candidates(payer_claim_control_number))

\* Which strategies have a hit in the store, stated on the store's content.
Hit1 == \E k \in PcnCandidates, h \in claim_headers : h.claim_id = k
Hit2 == \E k \in Clp07Candidates, h \in claim_headers : h.original_claim_id = k
Hit3 == \E k \in Clp07Candidates, r \in claim_references :
            /\ r.reference_value = k
            /\ r.reference_qualifier \in Range(qualifier_priority)
Hit4 == \E k \in Clp07Candidates, r \in claim_references : r.reference_value = k

\* The strategy number of a result (3 and 4 share the strategy key and differ by
\* the reason code).
StrategyOf(r) ==
    CASE r.strategy = "clp01" -> 1
      [] r.strategy = "clp07_original_claim_id" -> 2
      [] r.strategy = "clp07_ref" /\ r.reason_code # <<"MATCHED_REF_", "ANY">> -> 3
      [] r.strategy = "clp07_ref" /\ r.reason_code = <<"MATCHED_REF_", "ANY">> -> 4
      [] OTHER -> 5

\* C2: the strategies are tried in the order 1..4 and the first that has a hit
\* gives the result: a claim_id hit always yields clp01 / MATCHED_CLAIM_ID with the
\* id of a matching row, and strategy k is returned only when 1..k-1 have no hit.
C2_FirstHitWins ==
    mpc = "done" =>
        LET k == StrategyOf(match_result) IN
        /\ Hit1 => /\ match_result.strategy = "clp01"
                   /\ match_result.reason_code = <<"MATCHED_CLAIM_ID">>
                   /\ \E h \in claim_headers : /\ h.id = match_result.claim_header_id
                                               /\ h.claim_id \in PcnCandidates
        /\ k = 1 <=> Hit1
        /\ k = 2 <=> ~Hit1 /\ Hit2
        /\ k = 3 <=> ~Hit1 /\ ~Hit2 /\ Hit3
        /\ k = 4 <=> ~Hit1 /\ ~Hit2 /\ ~Hit3 /\ Hit4
        /\ k = 5 <=> ~Hit1 /\ ~Hit2 /\ ~Hit3 /\ ~Hit4

\* The direct match wins although every fallback would match as well.
C2_Witness ==
    /\ mpc = "done"
    /\ Hit1 /\ Hit2 /\ Hit3 /\ Hit4
    /\ match_result.strategy = "clp01"

\* C4 as claimed: an unmatched result has no claim id and a reason code that
\* separates the four situations; NO_MATCH_CLP01_CLP07 is returned only when both
\* keys are present and NO_KEYS only when both are absent.
C4_ReasonCodes ==
    (mpc = "done" /\ ~Hit1 /\ ~Hit2 /\ ~Hit3 /\ ~Hit4) =>
        /\ match_result.claim_header_id = None
        /\ match_result.strategy = "unmatched"
        /\ match_result.reason_code = <<"UNUSABLE_CLP01">> =>
               Truthy(pcn) /\ PcnCandidates = {}
        /\ match_result.reason_code = <<"UNUSABLE_CLP07">> =>
               Truthy(payer_claim_control_number) /\ Clp07Candidates = {}
        /\ match_result.reason_code = <<"NO_MATCH_CLP01_CLP07">> =>
               PcnCandidates # {} /\ Clp07Candidates # {}
        /\ match_result.reason_code = <<"NO_KEYS">> =>
               ~Truthy(pcn) /\ ~Truthy(payer_claim_control_number)

\* C5: every call returns a MatchResult whose strategy is one of
\* MATCH_STRATEGY_KEYS and whose claim id is absent exactly when the strategy is
\* "unmatched", also when several rows match the same key.
C5_TotalResult ==
    mpc = "done" =>
        /\ match_result.strategy \in MATCH_STRATEGY_KEYS
        /\ match_result.claim_header_id = None <=> match_result.strategy = "unmatched"
        /\ match_result.claim_header_id # None =>
               match_result.claim_header_id \in HeaderIds

\* Two rows match the same key and one of them is returned.
C5_Witness ==
    /\ mpc = "done"
    /\ Cardinality({h \in claim_headers : h.claim_id \in PcnCandidates}) = 2
    /\ match_result.strategy = "clp01"
    /\ match_result.claim_header_id = <<"2">>

-----------------------------------------------------------------------------
(* parse_835.py: lookup tables and scalar parsing *)

\* parse_835.ADJUSTMENT_GROUP_MAP (keys)
ADJUSTMENT_GROUP_MAP_KEYS ==
    {<<"C", "O">>, <<"P", "R">>, <<"O", "A">>, <<"P", "I">>, <<"C", "R">>}

\* ADJUSTMENT_GROUP_MAP.get(code, 'Unknown'); a description is held as one opaque text
ADJUSTMENT_GROUP_MAP_get(code) ==
    CASE code = <<"C", "O">> -> <<"Contractual Obligation">>
      [] code = <<"P", "R">> -> <<"Patient Responsibility">>
      [] code = <<"O", "A">> -> <<"Other Adjustment">>
      [] code = <<"P", "I">> -> <<"Payer Initiated Reduction">>
      [] code = <<"C", "R">> -> <<"Correction/Reversal">>
      [] OTHER -> <<"Unknown">>

\* parse_835.CARC_MAP (keys)
CARC_MAP_KEYS ==
    {<<"1">>, <<"2">>, <<"3">>, <<"4">>, <<"5">>, <<"6">>, <<"9">>, <<"1", "6">>,
     <<"1", "8">>, <<"2", "2">>, <<"2", "3">>, <<"2", "4">>, <<"2", "6">>,
     <<"2", "7">>, <<"2", "9">>, <<"3", "1">>, <<"3", "5">>, <<"3", "9">>,
     <<"4", "5">>, <<"4", "9">>, <<"5", "0">>, <<"5", "5">>, <<"9", "6">>,
     <<"9", "7">>, <<"1", "0", "9">>, <<"1", "1", "9">>, <<"1", "6", "7">>,
     <<"1", "9", "7">>, <<"2", "0", "4">>, <<"2", "4", "2">>, <<"2", "5", "2">>,
     <<"A", "1">>, <<"A", "6">>, <<"B", "7">>, <<"B", "1", "5">>}

\* CARC_MAP.get(code, ''); a description is held as one opaque text
CARC_MAP_get(code) ==
    CASE code = <<"1">> -> <<"Deductible Amount">>
      [] code = <<"2">> -> <<"Coinsurance Amount">>
      [] code = <<"3">> -> <<"Copayment Amount">>
      [] code = <<"4">> -> <<"Procedure code inconsistent with modifier">>
      [] code = <<"5">> -> <<"Procedure code inconsistent with place of service">>
      [] code = <<"6">> -> <<"Procedure/revenue code inconsistent with diagnosis">>
      [] code = <<"9">> -> <<"Services not authorized">>
      [] code = <<"1", "6">> -> <<"Claim lacks information needed for adjudication">>
      [] code = <<"1", "8">> -> <<"Exact duplicate claim/service">>
      [] code = <<"2", "2">> -> <<"Care may be covered by another payer">>
      [] code = <<"2", "3">> -> <<"Charges included in allowance for another service">>
      [] code = <<"2", "4">> -> <<"Charges covered under capitation">>
      [] code = <<"2", "6">> -> <<"Expenses incurred prior to coverage">>
      [] code = <<"2", "7">> -> <<"Expenses incurred after coverage">>
      [] code = <<"2", "9">> -> <<"Time limit for filing has expired">>
      [] code = <<"3", "1">> -> <<"Patient not eligible for service on date of service">>
      [] code = <<"3", "5">> -> <<"Lifetime benefit maximum has been reached">>
      [] code = <<"3", "9">> -> <<"Services denied at the time authorization/pre-certification was requested">>
      [] code = <<"4", "5">> -> <<"Charges exceed contracted/legislated fee arrangement">>
      [] code = <<"4", "9">> -> <<"Non-covered because it is a routine/preventive exam">>
      [] code = <<"5", "0">> -> <<"Non-covered services">>
      [] code = <<"5", "5">> -> <<"Procedure requires prior authorization">>
      [] code = <<"9", "6">> -> <<"Non-covered charge(s)">>
      [] code = <<"9", "7">> -> <<"Benefit not included in current contract/plan">>
      [] code = <<"1", "0", "9">> -> <<"Not covered by this payer/contractor">>
      [] code = <<"1", "1", "9">> -> <<"Benefit maximum for this time period/occurrence has been reached">>
      [] code = <<"1", "6", "7">> -> <<"Diagnosis is not covered">>
      [] code = <<"1", "9", "7">> -> <<"Precertification/authorization/notification absent">>
      [] code = <<"2", "0", "4">> -> <<"Service not covered/authorized">>
      [] code = <<"2", "4", "2">> -> <<"Services not provided by designated provider">>
      [] code = <<"2", "5", "2">> -> <<"Service not on approved list">>
      [] code = <<"A", "1">> -> <<"Claim/service denied (Claim PPS)">>
      [] code = <<"A", "6">> -> <<"Prior hospitalization or 30-day transfer requirement not met">>
      [] code = <<"B", "7">> -> <<"Provider not certified/eligible to be paid for this procedure">>
      [] code = <<"B", "1", "5">> -> <<"Coverage not in effect at the time the service was provided">>
      [] OTHER -> <<>>

\* parse_835.CLP_STATUS_MAP (keys)
CLP_STATUS_MAP_KEYS ==
    {<<"1">>, <<"2">>, <<"3">>, <<"4">>, <<"1", "9">>, <<"2", "0">>, <<"2", "1">>,
     <<"2", "2">>, <<"2", "3">>, <<"2", "5">>}

\* CLP_STATUS_MAP.get(code, ''); a description is held as one opaque text
CLP_STATUS_MAP_get(code) ==
    CASE code = <<"1">> -> <<"Processed as Primary">>
      [] code = <<"2">> -> <<"Processed as Secondary">>
      [] code = <<"3">> -> <<"Processed as Tertiary">>
      [] code = <<"4">> -> <<"Denied">>
      [] code = <<"1", "9">> -> <<"Processed as Primary, Forwarded to Additional Payer(s)">>
      [] code = <<"2", "0">> -> <<"Processed as Secondary, Forwarded to Additional Payer(s)">>
      [] code = <<"2", "1">> -> <<"Processed as Tertiary, Forwarded to Additional Payer(s)">>
      [] code = <<"2", "2">> -> <<"Reversal of Previous Payment">>
      [] code = <<"2", "3">> -> <<"Not Our Claim, Forwarded to Additional Payer(s)">>
      [] code = <<"2", "5">> -> <<"Reject into payment cycle">>
      [] OTHER -> <<>>

\* safe_get(lst, idx, default), idx counted from 0 as in the source
safe_get(lst, idx, default) == IF idx < Len(lst) THEN lst[idx + 1] ELSE default

AllDigits(s) == \A i \in 1..Len(s) : s[i] \in Digits

\* The text after an optional sign.
Unsigned(s) == IF s # <<>> /\ Head(s) \in {"-", "+"} THEN Tail(s) ELSE s

\* Digits without leading zeros ("0" for zero), digits without trailing zeros.
NoLeadingZeros(s) == LET t == LStrip(s, {"0"}) IN IF t = <<>> THEN <<"0">> ELSE t
NoTrailingZeros(s) == LET t == RStrip(s, {"0"}) IN IF t = <<>> THEN <<"0">> ELSE t

\* float(text), the value held as its repr ("50.00" is 50.0, written "50.0"), or
\* None for a ValueError.  The decimal forms [sign] digits [. digits] and
\* [sign] . digits are read; exponents, inf, nan and "_" are not among the tokens
\* drawn.
FloatOf(text) ==
    LET t    == Strip(text)
        body == Unsigned(t)
        dots == {i \in 1..Len(body) : body[i] = "."}
        dot  == IF dots = {} THEN Len(body) + 1 ELSE CHOOSE i \in dots : TRUE
        ip   == SubSeq(body, 1, dot - 1)
        fp   == SubSeq(body, dot + 1, Len(body))
        neg  == t # <<>> /\ Head(t) = "-"
    IN  IF Cardinality(dots) <= 1 /\ AllDigits(ip) /\ AllDigits(fp)
           /\ Len(ip) + Len(fp) > 0
        THEN (IF neg THEN <<"-">> ELSE <<>>)
             \o NoLeadingZeros(ip) \o <<".">> \o NoTrailingZeros(fp)
        ELSE None

\* parse_amount(amount_str)
parse_amount(amount_str) ==
    IF amount_str = <<>> \/ amount_str = None THEN None ELSE FloatOf(amount_str)

\* int(text), the value held as its decimal text, or None for a ValueError.
IntOf(text) ==
    LET t    == Strip(text)
        body == Unsigned(t)
        d    == NoLeadingZeros(body)
    IN  IF body # <<>> /\ AllDigits(body)
        THEN (IF Head(t) = "-" /\ d # <<"0">> THEN <<"-">> ELSE <<>>) \o d
        ELSE None

-----------------------------------------------------------------------------
(* parse_835.py: parse_cas_adjustments *)

Adjustment(group_code, carc, amount, qty) ==
    [adjustment_group_code |-> group_code,
     adjustment_group_desc |-> ADJUSTMENT_GROUP_MAP_get(group_code),
     carc_code             |-> carc,
     carc_description      |-> CARC_MAP_get(carc),
     adjustment_amount     |-> amount,
     adjustment_quantity   |-> qty]

\* A slip: an empty reason code does not end the loop but is decoded as an
\* entry of its own.
RECURSIVE CasLoopPastEmpty(_, _, _)
CasLoopPastEmpty(sg, idx, acc) ==
    IF ~(idx < Len(sg)) THEN acc
    ELSE LET carc      == safe_get(sg, idx, <<>>)
             amount    == IF idx + 1 < Len(sg)
                          THEN parse_amount(safe_get(sg, idx + 1, <<>>)) ELSE None
             qty_token == safe_get(sg, idx + 2, <<>>)
             has_qty   == idx + 2 < Len(sg) /\ qty_token \notin ADJUSTMENT_GROUP_MAP_KEYS
             qty       == IF has_qty THEN IntOf(qty_token) ELSE None
             next      == IF has_qty THEN idx + 3 ELSE idx + 2
         IN  IF carc \in ADJUSTMENT_GROUP_MAP_KEYS /\ idx # 2 THEN acc
             ELSE CasLoopPastEmpty(sg, next,
                      [adjustments |->
                           Append(acc.adjustments,
                                  Adjustment(safe_get(sg, 1, <<>>), carc, amount, qty)),
                       unknown_carc_codes |->
                           acc.unknown_carc_codes
                           \cup (IF carc \notin CARC_MAP_KEYS THEN {carc} ELSE {})])

\* A slip: the loop without the defensive break at a group code, so that the
\* tokens from it on are decoded as a further entry.
RECURSIVE CasLoopNoBreak(_, _, _)
CasLoopNoBreak(sg, idx, acc) ==
    IF ~(idx < Len(sg)) THEN acc
    ELSE LET carc      == safe_get(sg, idx, <<>>)
             amount    == IF idx + 1 < Len(sg)
                          THEN parse_amount(safe_get(sg, idx + 1, <<>>)) ELSE None
             qty_token == safe_get(sg, idx + 2, <<>>)
             has_qty   == idx + 2 < Len(sg) /\ qty_token \notin ADJUSTMENT_GROUP_MAP_KEYS
             qty       == IF has_qty THEN IntOf(qty_token) ELSE None
             next      == IF has_qty THEN idx + 3 ELSE idx + 2
         IN  IF carc = <<>> THEN acc
             ELSE CasLoopNoBreak(sg, next,
                      [adjustments |->
                           Append(acc.adjustments,
                                  Adjustment(safe_get(sg, 1, <<>>), carc, amount, qty)),
                       unknown_carc_codes |->
                           acc.unknown_carc_codes
                           \cup (IF carc \notin CARC_MAP_KEYS THEN {carc} ELSE {})])

\* The while loop of parse_cas_adjustments from index idx on; acc holds the entries
\* appended and the reason codes added to summary['unknown_carc_codes'] so far.
RECURSIVE CasLoop(_, _, _)
CasLoop(sg, idx, acc) ==
    IF ~(idx < Len(sg)) THEN acc
    ELSE LET carc      == safe_get(sg, idx, <<>>)
             amount    == IF idx + 1 < Len(sg)
                          THEN parse_amount(safe_get(sg, idx + 1, <<>>)) ELSE None
             qty_token == safe_get(sg, idx + 2, <<>>)
             has_qty   == idx + 2 < Len(sg) /\ qty_token \notin ADJUSTMENT_GROUP_MAP_KEYS
             qty       == IF has_qty THEN IntOf(qty_token) ELSE None
             next      == IF has_qty THEN idx + 3 ELSE idx + 2
         IN  IF carc = <<>> THEN acc
             ELSE IF carc \in ADJUSTMENT_GROUP_MAP_KEYS /\ idx # 2 THEN acc
             ELSE CasLoop(sg, next,
                      [adjustments |->
                           Append(acc.adjustments,
                                  Adjustment(safe_get(sg, 1, <<>>), carc, amount, qty)),
                       unknown_carc_codes |->
                           acc.unknown_carc_codes
                           \cup (IF carc \notin CARC_MAP_KEYS THEN {carc} ELSE {})])

\* parse_cas_adjustments(seg, summary): the entries returned and what the call adds
\* to the two sets of summary.
parse_cas_adjustments(sg) ==
    LET group_code == safe_get(sg, 1, <<>>)
        loop == CasLoop(sg, 2, [adjustments |-> <<>>, unknown_carc_codes |-> {}])
    IN  IF Len(sg) < 4
        THEN [adjustments |-> <<>>, unknown_adjustment_groups |-> {},
              unknown_carc_codes |-> {}]
        ELSE [adjustments |-> loop.adjustments,
              unknown_adjustment_groups |->
                  IF group_code # <<>> /\ group_code \notin ADJUSTMENT_GROUP_MAP_KEYS
                  THEN {group_code} ELSE {},
              unknown_carc_codes |-> loop.unknown_carc_codes]

\* Segment identifiers and tokens
CAS == <<"C", "A", "S">>
CO  == <<"C", "O">>
PR  == <<"P", "R">>

\* Bounds of the CAS inputs: CAS followed by up to MaxCasLen tokens of CasTokens
\* (two recognized group codes, a known reason code that is also an integer, an
\* amount, an unknown code, the empty element), and the documented example.
MaxCasLen == 6

CasTokens == {CO, PR, <<"4", "5">>, <<"5", "0", ".", "0", "0">>, <<"Z", "Z">>, <<>>}

CasExample == <<CAS, CO, <<"4", "5">>, <<"5", "0", ".", "0", "0">>,
                PR, <<"2">>, <<"2", "5", ".", "0", "0">> >>

CasInputs(n) == {<<CAS>> \o t : t \in StringsUpTo(CasTokens, n)} \cup {CasExample}

CasInit ==
    /\ seg \in CasInputs(MaxCasLen)
    /\ adjustments = <<>>
    /\ cas_summary = [unknown_adjustment_groups |-> {}, unknown_carc_codes |-> {}]
    /\ cas_idx = 2
    /\ cpc = "call"

\* One call of parse_cas_adjustments(seg, summary).
ParseCasAdjustments ==
    /\ cpc = "call"
    /\ LET r == parse_cas_adjustments(seg)
       IN  /\ adjustments' = r.adjustments
           /\ cas_summary' =
                  [unknown_adjustment_groups |->
                       cas_summary.unknown_adjustment_groups
                       \cup r.unknown_adjustment_groups,
                   unknown_carc_codes |->
                       cas_summary.unknown_carc_codes \cup r.unknown_carc_codes]
    /\ cpc' = "done"
    /\ UNCHANGED <<seg, cas_idx>>

CasNext ==
    ParseCasAdjustments /\ UNCHANGED <<keysVars, matchVars, delimVars, payVars, laterVars>>

-----------------------------------------------------------------------------
(* parse_835.py: parse_cas_adjustments, an iteration of the while loop per step *)

\* The segments: CAS followed by up to MaxCasLen tokens of CasLoopTokens (a
\* recognized group code, a reason code that is also an amount and an
\* integer, the empty element).
CasLoopTokens == {CO, <<"4", "5">>, <<>>}

CasLoopInputs(n) == {<<CAS>> \o t : t \in StringsUpTo(CasLoopTokens, n)}

CasLoopInit ==
    /\ seg \in CasLoopInputs(MaxCasLen)
    /\ adjustments = <<>>
    /\ cas_summary = [unknown_adjustment_groups |-> {}, unknown_carc_codes |-> {}]
    /\ cas_idx = 2
    /\ cpc = "enter"

\* Lines 153-161: the early return of a short segment, the group code, idx = 2
CasEnter ==
    /\ cpc = "enter"
    /\ IF Len(seg) < 4
       THEN cpc' = "done" /\ UNCHANGED cas_summary
       ELSE /\ cpc' = "while"
            /\ cas_summary' =
                   [cas_summary EXCEPT !.unknown_adjustment_groups =
                       @ \cup (IF safe_get(seg, 1, <<>>) # <<>>
                                  /\ safe_get(seg, 1, <<>>) \notin ADJUSTMENT_GROUP_MAP_KEYS
                               THEN {safe_get(seg, 1, <<>>)} ELSE {})]
    /\ cas_idx' = 2
    /\ UNCHANGED <<seg, adjustments>>
    /\ UNCHANGED <<keysVars, matchVars, delimVars, payVars, laterVars>>

\* The iteration under way ends the loop (lines 164-170).
CasBreaks ==
    \/ safe_get(seg, cas_idx, <<>>) = <<>>
    \/ safe_get(seg, cas_idx, <<>>) \in ADJUSTMENT_GROUP_MAP_KEYS /\ cas_idx # 2

\* Lines 164-170: break
CasBreak ==
    /\ cpc = "while"
    /\ cas_idx < Len(seg)
    /\ CasBreaks
    /\ cpc' = "done"
    /\ UNCHANGED <<seg, adjustments, cas_summary, cas_idx>>
    /\ UNCHANGED <<keysVars, matchVars, delimVars, payVars, laterVars>>

\* A slip: without a quantity the index moves on by one.
CasEntryByOne ==
    /\ cpc = "while"
    /\ cas_idx < Len(seg)
    /\ ~CasBreaks
    /\ LET carc      == safe_get(seg, cas_idx, <<>>)
           amount    == IF cas_idx + 1 < Len(seg)
                        THEN parse_amount(safe_get(seg, cas_idx + 1, <<>>)) ELSE None
           qty_token == safe_get(seg, cas_idx + 2, <<>>)
           has_qty   == /\ cas_idx + 2 < Len(seg)
                        /\ qty_token \notin ADJUSTMENT_GROUP_MAP_KEYS
       IN  /\ cas_idx' = IF has_qty THEN cas_idx + 3 ELSE cas_idx + 1
           /\ adjustments' =
                  Append(adjustments,
                         Adjustment(safe_get(seg, 1, <<>>), carc, amount,
                                    IF has_qty THEN IntOf(qty_token) ELSE None))
           /\ cas_summary' =
                  [cas_summary EXCEPT !.unknown_carc_codes =
                      @ \cup (IF carc \notin CARC_MAP_KEYS THEN {carc} ELSE {})]
    /\ UNCHANGED <<seg, cpc>>
    /\ UNCHANGED <<keysVars, matchVars, delimVars, payVars, laterVars>>

\* Lines 172-197: an iteration that appends an entry
CasEntry ==
    /\ cpc = "while"
    /\ cas_idx < Len(seg)
    /\ ~CasBreaks
    /\ LET carc      == safe_get(seg, cas_idx, <<>>)
           amount    == IF cas_idx + 1 < Len(seg)
                        THEN parse_amount(safe_get(seg, cas_idx + 1, <<>>)) ELSE None
           qty_token == safe_get(seg, cas_idx + 2, <<>>)
           has_qty   == /\ cas_idx + 2 < Len(seg)
                        /\ qty_token \notin ADJUSTMENT_GROUP_MAP_KEYS
       IN  /\ cas_idx' = IF has_qty THEN cas_idx + 3 ELSE cas_idx + 2
           /\ adjustments' =
                  Append(adjustments,
                         Adjustment(safe_get(seg, 1, <<>>), carc, amount,
                                    IF has_qty THEN IntOf(qty_token) ELSE None))
           /\ cas_summary' =
                  [cas_summary EXCEPT !.unknown_carc_codes =
                      @ \cup (IF carc \notin CARC_MAP_KEYS THEN {carc} ELSE {})]
    /\ UNCHANGED <<seg, cpc>>
    /\ UNCHANGED <<keysVars, matchVars, delimVars, payVars, laterVars>>

\* Lines 163 and 199: the condition of the while fails, return adjustments
CasReturn ==
    /\ cpc = "while"
    /\ ~(cas_idx < Len(seg))
    /\ cpc' = "done"
    /\ UNCHANGED <<seg, adjustments, cas_summary, cas_idx>>
    /\ UNCHANGED <<keysVars, matchVars, delimVars, payVars, laterVars>>

CasLoopNext == CasEnter \/ CasBreak \/ CasEntry \/ CasReturn

-----------------------------------------------------------------------------
(* C1 *)

\* The four claimed fields of an entry.
EntryFields(a) ==
    <<a.adjustment_group_code, a.carc_code, a.adjustment_amount, a.adjustment_quantity>>

\* C1 as claimed: [CAS, G1, r1, a1, G2, r2, a2] with recognized group codes G1, G2
\* decodes into the two entries (G1, r1, a1, None) and (G2, r2, a2, None).
C1_TwoEntries ==
    (/\ cpc = "done"
     /\ Len(seg) = 7
     /\ seg[2] \in ADJUSTMENT_GROUP_MAP_KEYS /\ seg[5] \in ADJUSTMENT_GROUP_MAP_KEYS
     /\ seg[3] # <<>> /\ seg[6] # <<>>
     /\ parse_amount(seg[4]) # None /\ parse_amount(seg[7]) # None)
    => /\ Len(adjustments) = 2
       /\ EntryFields(adjustments[1]) = <<seg[2], seg[3], parse_amount(seg[4]), None>>
       /\ EntryFields(adjustments[2]) = <<seg[5], seg[6], parse_amount(seg[7]), None>>

\* C1 (amended): when the token after a reason/amount pair is a recognized group
\* code it is not consumed as a quantity, and decoding stops at it: a segment that
\* starts [CAS, G1, r1, a1, G2] with recognized G1, G2 decodes into exactly one
\* entry, (G1, r1, a1, None).
C1_StopsAtGroupCode ==
    (/\ cpc = "done"
     /\ Len(seg) >= 5
     /\ seg[2] \in ADJUSTMENT_GROUP_MAP_KEYS /\ seg[5] \in ADJUSTMENT_GROUP_MAP_KEYS
     /\ seg[3] # <<>>)
    => /\ Len(adjustments) = 1
       /\ EntryFields(adjustments[1]) = <<seg[2], seg[3], parse_amount(seg[4]), None>>

\* The documented example decodes into the single entry (CO, 45, 50.0, None).
C1_Witness ==
    /\ cpc = "done"
    /\ seg = CasExample
    /\ Len(adjustments) = 1
    /\ EntryFields(adjustments[1]) = <<CO, <<"4", "5">>, <<"5", "0", ".", "0">>, None>>

-----------------------------------------------------------------------------
(* edi_utils.py: detect_delimiters *)

\* defaults
DefaultDelimiters == [segment |-> "~", element |-> "*", component |-> ":", repetition |-> "^"]

ISA == <<"I", "S", "A">>

\* Offsets from the ISA marker: the element separator, the component separator
\* (ISA16), the segment terminator; the length of the fixed-layout envelope.
ElementOffset == 3
ComponentOffset == 104
SegmentOffset == 105
EnvelopeLen == 106

\* text[i], i counted from 0 as in the source
At(text, i) == text[i + 1]

\* str.find(sub): the offset of the first occurrence, or -1
Find(text, sub) ==
    LET hits == {i \in 0..(Len(text) - Len(sub)) :
                    SubSeq(text, i + 1, i + Len(sub)) = sub}
    IN  IF hits = {} THEN -1 ELSE CHOOSE i \in hits : \A j \in hits : i <= j

\* "not ch.strip()" for a single character
Blank(ch) == ch \in Whitespace

\* A slip: the component separator is read one character early.
detect_delimiters_early_component(text) ==
    LET isa_pos == Find(text, ISA)
    IN  IF text = <<>> THEN DefaultDelimiters
        ELSE IF isa_pos = -1 \/ Len(text) < isa_pos + EnvelopeLen THEN DefaultDelimiters
        ELSE LET element_sep   == At(text, isa_pos + ElementOffset)
                 component_sep == At(text, isa_pos + ComponentOffset - 1)
                 segment_term  == At(text, isa_pos + SegmentOffset)
             IN  IF Blank(element_sep) \/ Blank(segment_term) THEN DefaultDelimiters
                 ELSE [segment    |-> segment_term,
                       element    |-> element_sep,
                       component  |-> IF ~Blank(component_sep) THEN component_sep
                                      ELSE DefaultDelimiters.component,
                       repetition |-> "^"]

\* A slip: a blank segment terminator is not rejected.
detect_delimiters_blank_terminator(text) ==
    LET isa_pos == Find(text, ISA)
    IN  IF text = <<>> THEN DefaultDelimiters
        ELSE IF isa_pos = -1 \/ Len(text) < isa_pos + EnvelopeLen THEN DefaultDelimiters
        ELSE LET element_sep   == At(text, isa_pos + ElementOffset)
                 component_sep == At(text, isa_pos + ComponentOffset)
                 segment_term  == At(text, isa_pos + SegmentOffset)
             IN  IF Blank(element_sep) THEN DefaultDelimiters
                 ELSE [segment    |-> segment_term,
                       element    |-> element_sep,
                       component  |-> IF ~Blank(component_sep) THEN component_sep
                                      ELSE DefaultDelimiters.component,
                       repetition |-> "^"]

\* detect_delimiters(content)
detect_delimiters(text) ==
    LET isa_pos == Find(text, ISA)
    IN  IF text = <<>> THEN DefaultDelimiters
        ELSE IF isa_pos = -1 \/ Len(text) < isa_pos + EnvelopeLen THEN DefaultDelimiters
        ELSE LET element_sep   == At(text, isa_pos + ElementOffset)
                 component_sep == At(text, isa_pos + ComponentOffset)
                 segment_term  == At(text, isa_pos + SegmentOffset)
             IN  IF Blank(element_sep) \/ Blank(segment_term) THEN DefaultDelimiters
                 ELSE [segment    |-> segment_term,
                       element    |-> element_sep,
                       component  |-> IF ~Blank(component_sep) THEN component_sep
                                      ELSE DefaultDelimiters.component,
                       repetition |-> "^"]

\* Bounds of the documents: up to MaxPrefix characters (or a stray "ISA") before an
\* envelope whose three separator positions hold any of SepChars, cut short by up
\* to MaxCut characters or followed by a further segment; documents without the
\* marker; the empty document.
MaxPrefix == 1
MaxCut == 1

SepChars == {"*", "|", "~", ":", ">", " ", "\n"}

\* n copies of the character ch
Fill(ch, n) == [i \in 1..n |-> ch]

\* ISA, the element separator, the envelope's fields up to ISA16, the component
\* separator and the segment terminator.
Envelope(e, c, t) ==
    ISA \o <<e>> \o Fill("0", ComponentOffset - ElementOffset - 1) \o <<c, t>>

DelimInputs(n, m) ==
    LET prefixes == StringsUpTo({"X"}, n) \cup {ISA}
        suffixes == {<<>>, <<"G", "S">>}
        full     == {p \o Envelope(e, c, t) \o x :
                        p \in prefixes, x \in suffixes,
                        e \in SepChars, c \in SepChars, t \in SepChars}
        cut      == {SubSeq(p \o Envelope(e, c, t), 1, Len(p) + EnvelopeLen - k) :
                        p \in prefixes, k \in 1..m,
                        e \in SepChars, c \in SepChars, t \in SepChars}
    IN  full \cup cut \cup {<<>>, <<"G", "S", "*", "H", "P", "~">>, <<"I", "S">>}

DelimInit ==
    /\ content \in DelimInputs(MaxPrefix, MaxCut)
    /\ delimiters = DefaultDelimiters
    /\ dpc = "call"

\* One call of detect_delimiters.
DetectDelimiters ==
    /\ dpc = "call"
    /\ delimiters' = detect_delimiters(content)
    /\ dpc' = "done"
    /\ UNCHANGED content

DelimNext ==
    DetectDelimiters /\ UNCHANGED <<keysVars, matchVars, casVars, payVars, laterVars>>

-----------------------------------------------------------------------------
(* C9, C10 *)

\* m is the offset of the ISA marker: the first place where "ISA" stands.
IsMarker(m) ==
    /\ m + 3 <= Len(content)
    /\ SubSeq(content, m + 1, m + 3) = ISA
    /\ \A j \in 0..(m - 1) : SubSeq(content, j + 1, j + 3) # ISA

Markers == {m \in 0..Len(content) : IsMarker(m)}

\* The document holds a complete envelope at m.
Complete(m) == Len(content) >= m + EnvelopeLen

\* C9: when the document holds a complete envelope (at least 106 characters from
\* the marker) whose element separator, component separator and segment terminator
\* are non-whitespace characters, detect_delimiters returns exactly the characters
\* at offsets 3, 104 and 105 from the marker, with the repetition separator "^".
C9_DetectsEnvelope ==
    dpc = "done" =>
        \A m \in Markers :
            (/\ Complete(m)
             /\ ~Blank(At(content, m + ElementOffset)) /\ ~Blank(At(content, m + ComponentOffset))
             /\ ~Blank(At(content, m + SegmentOffset)))
            => delimiters = [segment    |-> At(content, m + SegmentOffset),
                             element    |-> At(content, m + ElementOffset),
                             component  |-> At(content, m + ComponentOffset),
                             repetition |-> "^"]

\* An envelope whose three separators all differ from the defaults is detected
\* behind a one-character prefix.
C9_Witness ==
    /\ dpc = "done"
    /\ Markers = {1} /\ Complete(1)
    /\ delimiters = [segment |-> ":", element |-> "|", component |-> ">",
                     repetition |-> "^"]

\* The envelope is absent or malformed as the claim lists it.
NoMarker == Markers = {}
TooShort == \E m \in Markers : ~Complete(m)
BlankAt(offset) == \E m \in Markers : Complete(m) /\ Blank(content[m + offset + 1])

-----------------------------------------------------------------------------
(* C11 *)

\* C11: every delimiter set detect_delimiters returns consists of four pairwise
\* distinct, non-whitespace characters.
C11_DistinctDelimiters ==
    dpc = "done" =>
        LET four == <<delimiters.segment, delimiters.element, delimiters.component,
                      delimiters.repetition>>
        IN  /\ \A i \in 1..4 : ~Blank(four[i])
            /\ \A i, j \in 1..4 : i # j => four[i] # four[j]

-----------------------------------------------------------------------------
(* edi_utils.py: split_composite;  parse_835.py: parse_date, sorted() *)

\* str.split(sep) for a one-character separator
RECURSIVE Split(_, _)
Split(text, sep) ==
    LET hits == {i \in 1..Len(text) : text[i] = sep}
        cut  == CHOOSE i \in hits : \A j \in hits : i <= j
    IN  IF hits = {} THEN <<text>>
        ELSE <<SubSeq(text, 1, cut - 1)>> \o Split(SubSeq(text, cut + 1, Len(text)), sep)

\* A slip: the legacy fallbacks tried before the declared separator.
split_composite_fallback_first(v, sep) ==
    IF v = <<>> THEN <<>>
    ELSE IF ":" \in Range(v) THEN Split(v, ":")
    ELSE IF ">" \in Range(v) THEN Split(v, ">")
    ELSE IF sep # "" /\ sep \in Range(v) THEN Split(v, sep)
    ELSE <<v>>

\* split_composite(value, component_sep), the separator one character or ''
split_composite(v, sep) ==
    IF v = <<>> THEN <<>>
    ELSE IF sep # "" /\ sep \in Range(v) THEN Split(v, sep)
    ELSE IF ":" \in Range(v) THEN Split(v, ":")
    ELSE IF ">" \in Range(v) THEN Split(v, ">")
    ELSE <<v>>

DigitSeq == <<"0", "1", "2", "3", "4", "5", "6", "7", "8", "9">>

DigitVal(c) == (CHOOSE i \in 1..10 : DigitSeq[i] = c) - 1

\* The number a digit string writes.
RECURSIVE NumberOf(_)
NumberOf(ds) ==
    IF ds = <<>> THEN 0 ELSE 10 * NumberOf(SubSeq(ds, 1, Len(ds) - 1)) + DigitVal(ds[Len(ds)])

\* The days of a month of the proleptic Gregorian calendar (datetime's).
DaysIn(y, m) ==
    IF m \in {4, 6, 9, 11} THEN 30
    ELSE IF m # 2 THEN 31
    ELSE IF (y % 4 = 0 /\ y % 100 # 0) \/ y % 400 = 0 THEN 29 ELSE 28

\* parse_date(date_str): datetime.strptime(date_str[:8], '%Y%m%d') written back as
\* '%Y-%m-%d', or None.  Of eight characters strptime accepts four digits of year,
\* two of month and two of day (the day also as a blank and one digit), and rejects
\* what is left over after a one-digit month or day; strftime writes the year
\* without leading zeros.
parse_date(date_str) ==
    IF date_str = None \/ date_str = <<>> \/ Len(date_str) < 8 THEN None
    ELSE LET d   == SubSeq(date_str, 1, 8)
             dd  == IF d[7] = " " THEN <<"0", d[8]>> ELSE SubSeq(d, 7, 8)
             ok  == AllDigits(SubSeq(d, 1, 6)) /\ AllDigits(dd)
             y   == NumberOf(SubSeq(d, 1, 4))
             m   == NumberOf(SubSeq(d, 5, 6))
             day == NumberOf(dd)
         IN  IF ok /\ y >= 1 /\ m \in 1..12 /\ day \in 1..DaysIn(y, m)
             THEN NoLeadingZeros(SubSeq(d, 1, 4)) \o <<"-">> \o SubSeq(d, 5, 6)
                  \o <<"-">> \o dd
             ELSE None

\* The ASCII letters, digits and punctuation of X12 data in code-point order.
Ascii ==
    <<" ", "!", "#", "$", "%", "&", "'", "(", ")", "+", ",", "-", ".", "/",
      "0", "1", "2", "3", "4", "5", "6", "7", "8", "9", ":", ";", "<", "=", ">", "?",
      "@", "A", "B", "C", "D", "E", "F", "G", "H", "I", "J", "K", "L", "M", "N", "O",
      "P", "Q", "R", "S", "T", "U", "V", "W", "X", "Y", "Z", "[", "]", "^", "_",
      "a", "b", "c", "d", "e", "f", "g", "h", "i", "j", "k", "l", "m", "n", "o",
      "p", "q", "r", "s", "t", "u", "v", "w", "x", "y", "z", "{", "|", "}", "~">>

CodePoint(c) == CHOOSE i \in 1..Len(Ascii) : Ascii[i] = c

\* a < b for two str values (code point by code point, a proper prefix first)
RECURSIVE StrLess(_, _)
StrLess(a, b) ==
    IF b = <<>> THEN FALSE
    ELSE IF a = <<>> THEN TRUE
    ELSE IF Head(a) # Head(b) THEN CodePoint(Head(a)) < CodePoint(Head(b))
    ELSE StrLess(Tail(a), Tail(b))

\* list(a set of str): the iteration order of a set of str follows the hashes
\* of its members, which the hash seed of the interpreter decides
RECURSIVE InHashOrder(_)
InHashOrder(S) ==
    IF S = {} THEN <<>>
    ELSE LET first == CHOOSE x \in S : \A y \in S :
                          \/ x = y
                          \/ IF hash_seed = "seed1" THEN StrLess(y, x) ELSE StrLess(x, y)
         IN  <<first>> \o InHashOrder(S \ {first})

\* sorted(a set of str)
RECURSIVE Sorted(_)
Sorted(S) ==
    IF S = {} THEN <<>>
    ELSE LET least == CHOOSE x \in S : \A y \in S : x = y \/ StrLess(x, y)
         IN  <<least>> \o Sorted(S \ {least})

-----------------------------------------------------------------------------
(* parse_835.py: extract_payments, its values *)

\* A key a dict does not hold.
Missing == <<"Missing">>

\* d.get(key, default) of a dict held as a record with Missing for absent keys
Get(v, default) == IF v = Missing THEN default ELSE v

\* Segment identifiers and qualifiers
N1   == <<"N", "1">>
PE   == <<"P", "E">>
BPR  == <<"B", "P", "R">>
TRN  == <<"T", "R", "N">>
DTM  == <<"D", "T", "M">>
CLP  == <<"C", "L", "P">>
SVC  == <<"S", "V", "C">>
NM1  == <<"N", "M", "1">>
QC   == <<"Q", "C">>
Q405 == <<"4", "0", "5">>
Q573 == <<"5", "7", "3">>
Q050 == <<"0", "5", "0">>
Q232 == <<"2", "3", "2">>
Q233 == <<"2", "3", "3">>

\* extract_payments' file_name argument
file_name == <<"era.835">>

\* payer_info = {}, check_info = {}, summary = {...} (lines 211-219)
EmptyPayerInfo == [payer_name |-> Missing, payer_id |-> Missing]

EmptyCheckInfo ==
    [payment_method_code |-> Missing, payment_date_bpr |-> Missing,
     check_number |-> Missing, production_date |-> Missing]

EmptySummary ==
    [warnings |-> <<>>, unknown_adjustment_groups |-> {}, unknown_carc_codes |-> {},
     unknown_clp_status_codes |-> {}, invalid_dates |-> 0]

\* The record a CLP segment opens (lines 260-285).
NewPayment(sg, payer, check) ==
    LET status_code == safe_get(sg, 2, <<>>)
        filing_code == safe_get(sg, 6, <<>>)
    IN  [payment |->
            [patient_control_number      |-> safe_get(sg, 1, <<>>),
             claim_status_code           |-> status_code,
             claim_status_desc           |-> CLP_STATUS_MAP_get(status_code),
             total_charge_amount         |-> parse_amount(safe_get(sg, 3, <<>>)),
             paid_amount                 |-> parse_amount(safe_get(sg, 4, <<>>)),
             patient_responsibility      |-> parse_amount(safe_get(sg, 5, <<>>)),
             claim_filing_indicator_code |-> filing_code,
             payer_claim_control_number  |-> safe_get(sg, 7, <<>>),
             payer_id                    |-> Get(payer.payer_id, <<>>),
             payer_name                  |-> Get(payer.payer_name, <<>>),
             check_number                |-> Get(check.check_number, <<>>),
             payment_date                |-> Get(check.payment_date_bpr, None),
             payment_method_code         |-> Get(check.payment_method_code, <<>>),
             file_name                   |-> file_name,
             statement_start             |-> Missing,
             statement_end               |-> Missing,
             patient_last_name           |-> Missing,
             patient_first_name          |-> Missing],
         service_lines |-> <<>>,
         adjustments   |-> <<>>]

\* The record an SVC segment opens (lines 296-308); proc_parts is not empty.
NewServiceLine(sg, sep) ==
    LET proc_parts == split_composite(safe_get(sg, 1, <<>>), sep)
    IN  [procedure_code |-> IF Len(proc_parts) >= 2 THEN proc_parts[2] ELSE proc_parts[1],
         modifier_1     |-> IF Len(proc_parts) >= 3 THEN proc_parts[3] ELSE None,
         charge_amount  |-> parse_amount(safe_get(sg, 2, <<>>)),
         paid_amount    |-> parse_amount(safe_get(sg, 3, <<>>)),
         revenue_code   |-> IF Len(sg) >= 5 THEN safe_get(sg, 4, None) ELSE None,
         units_paid     |-> IF Len(sg) >= 6 THEN parse_amount(safe_get(sg, 5, <<>>))
                            ELSE None,
         adjustments    |-> <<>>]

\* adj['level'] = level
WithLevel(adj, level) ==
    [adjustment_group_code |-> adj.adjustment_group_code,
     adjustment_group_desc |-> adj.adjustment_group_desc,
     carc_code             |-> adj.carc_code,
     carc_description      |-> adj.carc_description,
     adjustment_amount     |-> adj.adjustment_amount,
     adjustment_quantity   |-> adj.adjustment_quantity,
     level                 |-> level]

\* for adj in parse_cas_adjustments(seg, summary): adj['level'] = level
Levelled(sg, level) ==
    LET adjs == parse_cas_adjustments(sg).adjustments
    IN  [i \in 1..Len(adjs) |-> WithLevel(adjs[i], level)]

\* A slip: the group code of the segment is not recorded.
SummaryAfterCasWithoutGroup(s, sg) ==
    [s EXCEPT !.unknown_carc_codes = @ \cup parse_cas_adjustments(sg).unknown_carc_codes]

\* summary after parse_cas_adjustments(seg, summary)
SummaryAfterCas(s, sg) ==
    LET r == parse_cas_adjustments(sg)
    IN  [s EXCEPT !.unknown_adjustment_groups = @ \cup r.unknown_adjustment_groups,
                  !.unknown_carc_codes = @ \cup r.unknown_carc_codes]

-----------------------------------------------------------------------------
(* parse_835.py: extract_payments, the documents *)

Date0101 == <<"2", "0", "2", "6", "0", "1", "0", "1">>
Date0202 == <<"2", "0", "2", "6", "0", "2", "0", "2">>
Date0315 == <<"2", "0", "2", "6", "0", "3", "1", "5">>
BadDate  == <<"2", "0", "2", "6", "1", "3", "4", "0">>

\* ISA with its sixteen elements
SegISA == <<ISA>> \o Fill(<<"0">>, 16)

\* N1*PR with and without the payer id, N1*PE
SegPayerA == <<N1, PR, <<"A", "c", "m", "e">>, <<"P", "I">>, <<"7", "7">> >>
SegPayerB == <<N1, PR, <<"B", "l", "u", "e">>, <<"P", "I">> >>
SegPayee  == <<N1, PE, <<"D", "o", "c">> >>

\* BPR up to the payment method, and BPR with the payment date at element 16
SegBprShort == <<BPR, <<"I">>, <<"8", "0">>, <<"C">>, <<"A", "C", "H">> >>
SegBprLong  == SegBprShort \o Fill(<<>>, 11) \o <<Date0315>>

SegTRN == <<TRN, <<"1">>, <<"C", "K", "9">> >>

\* CLP*P1*1*100*80*20*MC*ICN9, CLP*P2*99*50*0 (an unknown status), CLP*P3*1*10
SegClp1 == <<CLP, <<"P", "1">>, <<"1">>, <<"1", "0", "0">>, <<"8", "0">>, <<"2", "0">>,
             <<"M", "C">>, <<"I", "C", "N", "9">> >>
SegClp2 == <<CLP, <<"P", "2">>, <<"9", "9">>, <<"5", "0">>, <<"0">> >>
SegClpShort == <<CLP, <<"P", "3">>, <<"1">>, <<"1", "0">> >>

\* SVC*HC:99213:25*100*80*0450*1, SVC*HC>99214*50*40, SVC*HC:99213*100,
\* SVC**100*80 (no procedure)
SegSvc1 == <<SVC, <<"H", "C", ":", "9", "9", "2", "1", "3", ":", "2", "5">>,
             <<"1", "0", "0">>, <<"8", "0">>, <<"0", "4", "5", "0">>, <<"1">> >>
SegSvc2 == <<SVC, <<"H", "C", ">", "9", "9", "2", "1", "4">>, <<"5", "0">>, <<"4", "0">> >>
SegSvcShort == <<SVC, <<"H", "C", ":", "9", "9", "2", "1", "3">>, <<"1", "0", "0">> >>
SegSvcEmpty == <<SVC, <<>>, <<"1", "0", "0">>, <<"8", "0">> >>

\* CAS*CO*45*50.00*PR*2*25.00, CAS*ZZ*999*1*1 (unknown codes), CAS*PR*1 (short)
SegCas1 == CasExample
SegCas2 == <<CAS, <<"Z", "Z">>, <<"9", "9", "9">>, <<"1">>, <<"1">> >>
SegCasShort == <<CAS, PR, <<"1">> >>

SegDtm573  == <<DTM, Q573, Date0101>>
SegDtm050  == <<DTM, Q050, Date0202>>
SegDtmBad  == <<DTM, Q573, BadDate>>
SegDtm232  == <<DTM, Q232, Date0101>>
SegDtm233  == <<DTM, Q233, Date0202>>
SegDtm405  == <<DTM, Q405, Date0315>>

SegNm1 == <<NM1, QC, <<"1">>, <<"D", "o", "e">>, <<"J", "o">> >>
SegSE  == <<<<"S", "E">>, <<"4">> >>

\* The documents: up to MaxDoc segments, all of one of these groups (claim
\* payments; adjustments; dates; the file header; composites and skipped
\* segments; the shorter forms).
MaxDoc == 4

CompositeGroup == {SegISA, SegPayee, SegSvcEmpty, SegClp2, SegSvc2}

SegmentGroups ==
    { {SegClp1, SegClp2, SegClpShort, SegSvc1, SegNm1},
      {SegClp1, SegSvc1, SegSvcShort, SegCas1, SegCas2, SegCasShort},
      {SegClp1, SegDtm573, SegDtm050, SegDtmBad, SegDtm232},
      {SegPayerA, SegTRN, SegBprLong, SegDtm405, SegClp1},
      CompositeGroup,
      {SegPayerB, SegBprShort, SegDtm233, SegSE, SegClp1} }

Documents(n) == UNION {StringsUpTo(g, n) : g \in SegmentGroups}

\* The calls: every document with the default component separator, and the
\* documents of the composite group with '>' as well.
PayInputs(n) ==
    {<<d, ":">> : d \in Documents(n)}
    \cup {<<d, ">">> : d \in StringsUpTo(CompositeGroup, n)}

PayInit ==
    /\ \E call \in PayInputs(MaxDoc) :
           segments = call[1] /\ component_separator = call[2]
    /\ seg_index = 0
    /\ payments = <<>>
    /\ current_payment = <<>>
    /\ current_svc = <<>>
    /\ payer_info = EmptyPayerInfo
    /\ check_info = EmptyCheckInfo
    /\ summary = EmptySummary
    /\ parse_summary = <<>>
    /\ ppc = "loop"

-----------------------------------------------------------------------------
(* parse_835.py: extract_payments, the loop *)
(* current_payment holds None as <<>> and a record r as <<r>>; current_svc holds  *)
(* None as <<>> and otherwise <<k>>, a reference to the k-th service line of the   *)
(* open payment: the dict of line 300 is the one appended at line 309.             *)

\* seg of the iteration under way
CurSeg == segments[seg_index + 1]

\* The branch of the if/elif chain (lines 225-331) a segment takes.
Branch(sg, cp, cs) ==
    LET seg_id == sg[1]
        e1     == safe_get(sg, 1, <<>>)
        n      == Len(sg)
    IN  IF seg_id = ISA /\ n >= 16 THEN "ISA"
        ELSE IF seg_id = N1 /\ e1 = PR /\ n >= 4 THEN "N1_PR"
        ELSE IF seg_id = N1 /\ e1 = PE THEN "N1_PE"
        ELSE IF seg_id = BPR /\ n >= 2 THEN "BPR"
        ELSE IF seg_id = TRN /\ n >= 3 THEN "TRN"
        ELSE IF seg_id = DTM /\ cp = <<>> /\ n >= 3 THEN "DTM_header"
        ELSE IF seg_id = CLP /\ n >= 5 THEN "CLP"
        ELSE IF seg_id = CAS /\ cp # <<>> /\ cs = <<>> /\ n >= 4 THEN "CAS_claim"
        ELSE IF seg_id = SVC /\ cp # <<>> /\ n >= 4 THEN "SVC"
        ELSE IF seg_id = CAS /\ cs # <<>> /\ n >= 4 THEN "CAS_line"
        ELSE IF seg_id = DTM /\ cp # <<>> /\ n >= 3 THEN "DTM_claim"
        ELSE IF seg_id = NM1 /\ e1 = QC /\ cp # <<>> /\ n >= 4 THEN "NM1_QC"
        ELSE "none"

\* The loop is at a segment that takes the branch b.
At835(b) ==
    /\ ppc = "loop"
    /\ seg_index < Len(segments)
    /\ Branch(CurSeg, current_payment, current_svc) = b

\* On to the next segment.
NextSeg ==
    /\ seg_index' = seg_index + 1
    /\ UNCHANGED <<segments, component_separator, parse_summary, ppc>>
    /\ UNCHANGED <<keysVars, matchVars, casVars, delimVars, laterVars>>

\* Lines 225-226 and 235-236: pass
Isa835 ==
    /\ At835("ISA")
    /\ NextSeg
    /\ UNCHANGED <<payments, current_payment, current_svc, payer_info, check_info,
                   summary>>

N1Payee ==
    /\ At835("N1_PE")
    /\ NextSeg
    /\ UNCHANGED <<payments, current_payment, current_svc, payer_info, check_info,
                   summary>>

\* Lines 229-232
N1Payer ==
    /\ At835("N1_PR")
    /\ payer_info' =
           [payer_name |-> safe_get(CurSeg, 2, <<>>),
            payer_id   |-> IF Len(CurSeg) >= 5 THEN safe_get(CurSeg, 4, <<>>)
                           ELSE payer_info.payer_id]
    /\ NextSeg
    /\ UNCHANGED <<payments, current_payment, current_svc, check_info, summary>>

\* Lines 239-243
Bpr ==
    /\ At835("BPR")
    /\ check_info' =
           [check_info EXCEPT
               !.payment_method_code = safe_get(CurSeg, 4, <<>>),
               !.payment_date_bpr =
                   IF Len(CurSeg) >= 16 THEN parse_date(safe_get(CurSeg, 16, <<>>))
                   ELSE @]
    /\ NextSeg
    /\ UNCHANGED <<payments, current_payment, current_svc, payer_info, summary>>

\* A slip: the check number reaches the open payment as well.
TrnIntoOpenPayment ==
    /\ At835("TRN")
    /\ check_info' = [check_info EXCEPT !.check_number = safe_get(CurSeg, 2, <<>>)]
    /\ current_payment' =
           IF current_payment = <<>> THEN current_payment
           ELSE <<[current_payment[1] EXCEPT
                      !.payment.check_number = safe_get(CurSeg, 2, <<>>)]>>
    /\ NextSeg
    /\ UNCHANGED <<payments, current_svc, payer_info, summary>>

\* Lines 246-247
Trn ==
    /\ At835("TRN")
    /\ check_info' = [check_info EXCEPT !.check_number = safe_get(CurSeg, 2, <<>>)]
    /\ NextSeg
    /\ UNCHANGED <<payments, current_payment, current_svc, payer_info, summary>>

\* Lines 250-253
DtmHeader ==
    /\ At835("DTM_header")
    /\ check_info' =
           IF safe_get(CurSeg, 1, <<>>) = Q405
           THEN [check_info EXCEPT
                    !.production_date = parse_date(safe_get(CurSeg, 2, <<>>))]
           ELSE check_info
    /\ NextSeg
    /\ UNCHANGED <<payments, current_payment, current_svc, payer_info, summary>>

\* A slip: the service line stays open across the CLP.
ClpKeepsLine ==
    /\ At835("CLP")
    /\ payments' = IF current_payment # <<>> THEN Append(payments, current_payment[1])
                   ELSE payments
    /\ LET status_code == safe_get(CurSeg, 2, <<>>)
       IN  summary' =
               IF status_code # <<>> /\ status_code \notin CLP_STATUS_MAP_KEYS
               THEN [summary EXCEPT !.unknown_clp_status_codes = @ \cup {status_code}]
               ELSE summary
    /\ current_payment' = <<NewPayment(CurSeg, payer_info, check_info)>>
    /\ NextSeg
    /\ UNCHANGED <<current_svc, payer_info, check_info>>

\* Lines 256-286
Clp ==
    /\ At835("CLP")
    /\ payments' = IF current_payment # <<>> THEN Append(payments, current_payment[1])
                   ELSE payments
    /\ LET status_code == safe_get(CurSeg, 2, <<>>)
       IN  summary' =
               IF status_code # <<>> /\ status_code \notin CLP_STATUS_MAP_KEYS
               THEN [summary EXCEPT !.unknown_clp_status_codes = @ \cup {status_code}]
               ELSE summary
    /\ current_payment' = <<NewPayment(CurSeg, payer_info, check_info)>>
    /\ current_svc' = <<>>
    /\ NextSeg
    /\ UNCHANGED <<payer_info, check_info>>

\* Lines 289-292
CasClaim ==
    /\ At835("CAS_claim")
    /\ current_payment' =
           <<[current_payment[1] EXCEPT !.adjustments = @ \o Levelled(CurSeg, "claim")]>>
    /\ summary' = SummaryAfterCas(summary, CurSeg)
    /\ NextSeg
    /\ UNCHANGED <<payments, current_svc, payer_info, check_info>>

\* Lines 295-309.  proc_parts[0] of an empty proc_parts (element 1 is empty) is an
\* IndexError, which extract_payments does not catch.
Svc ==
    /\ At835("SVC")
    /\ IF split_composite(safe_get(CurSeg, 1, <<>>), component_separator) = <<>>
       THEN /\ ppc' = "raised"
            /\ UNCHANGED <<segments, component_separator, seg_index, payments,
                           current_payment, current_svc, payer_info, check_info,
                           summary, parse_summary>>
            /\ UNCHANGED <<keysVars, matchVars, casVars, delimVars, laterVars>>
       ELSE /\ current_payment' =
                   <<[current_payment[1] EXCEPT
                         !.service_lines =
                             Append(@, NewServiceLine(CurSeg, component_separator))]>>
            /\ current_svc' = <<Len(current_payment[1].service_lines) + 1>>
            /\ NextSeg
            /\ UNCHANGED <<payments, payer_info, check_info, summary>>

\* A slip: the adjustments of a CAS after an SVC appended to the claim's list.
CasLineToClaim ==
    /\ At835("CAS_line")
    /\ current_payment' =
           <<[current_payment[1] EXCEPT !.adjustments = @ \o Levelled(CurSeg, "line")]>>
    /\ summary' = SummaryAfterCas(summary, CurSeg)
    /\ NextSeg
    /\ UNCHANGED <<payments, current_svc, payer_info, check_info>>

\* Lines 312-315
CasLine ==
    /\ At835("CAS_line")
    /\ current_payment' =
           <<[current_payment[1] EXCEPT
                 !.service_lines[current_svc[1]].adjustments =
                     @ \o Levelled(CurSeg, "line")]>>
    /\ summary' = SummaryAfterCas(summary, CurSeg)
    /\ NextSeg
    /\ UNCHANGED <<payments, current_svc, payer_info, check_info>>

\* Lines 318-328
DtmClaim ==
    /\ At835("DTM_claim")
    /\ LET qual     == safe_get(CurSeg, 1, <<>>)
           date_val == parse_date(safe_get(CurSeg, 2, <<>>))
       IN  /\ summary' =
                  IF safe_get(CurSeg, 2, <<>>) # <<>> /\ date_val = None
                  THEN [summary EXCEPT !.invalid_dates = @ + 1]
                  ELSE summary
           /\ current_payment' =
                  IF qual = Q573 \/ qual = Q050
                  THEN <<[current_payment[1] EXCEPT
                             !.payment.payment_date =
                                 IF date_val # None THEN date_val ELSE @]>>
                  ELSE IF qual = Q232
                  THEN <<[current_payment[1] EXCEPT
                             !.payment.statement_start = date_val]>>
                  ELSE IF qual = Q233
                  THEN <<[current_payment[1] EXCEPT
                             !.payment.statement_end = date_val]>>
                  ELSE current_payment
    /\ NextSeg
    /\ UNCHANGED <<payments, current_svc, payer_info, check_info>>

\* Lines 331-333
Nm1Patient ==
    /\ At835("NM1_QC")
    /\ current_payment' =
           <<[current_payment[1] EXCEPT
                 !.payment.patient_last_name = safe_get(CurSeg, 3, <<>>),
                 !.payment.patient_first_name = safe_get(CurSeg, 4, <<>>)]>>
    /\ NextSeg
    /\ UNCHANGED <<payments, current_svc, payer_info, check_info, summary>>

\* No branch of the chain takes the segment.
SkipSegment ==
    /\ At835("none")
    /\ NextSeg
    /\ UNCHANGED <<payments, current_payment, current_svc, payer_info, check_info,
                   summary>>

\* parse_summary of lines 339-345
ParseSummary(s) ==
    [warnings                  |-> s.warnings,
     unknown_adjustment_groups |-> Sorted(s.unknown_adjustment_groups),
     unknown_carc_codes        |-> Sorted(s.unknown_carc_codes),
     unknown_clp_status_codes  |-> Sorted(s.unknown_clp_status_codes),
     invalid_dates             |-> s.invalid_dates]

\* A slip: the return without the flush of the last payment.
ReturnWithoutFlush ==
    /\ ppc = "loop"
    /\ seg_index = Len(segments)
    /\ parse_summary' = ParseSummary(summary)
    /\ ppc' = "done"
    /\ UNCHANGED <<segments, component_separator, seg_index, payments,
                   current_payment, current_svc, payer_info, check_info, summary>>
    /\ UNCHANGED <<keysVars, matchVars, casVars, delimVars, laterVars>>

\* Lines 336-347: the end of the document
Return ==
    /\ ppc = "loop"
    /\ seg_index = Len(segments)
    /\ payments' = IF current_payment # <<>> THEN Append(payments, current_payment[1])
                   ELSE payments
    /\ parse_summary' = ParseSummary(summary)
    /\ ppc' = "done"
    /\ UNCHANGED <<segments, component_separator, seg_index, current_payment,
                   current_svc, payer_info, check_info, summary>>
    /\ UNCHANGED <<keysVars, matchVars, casVars, delimVars, laterVars>>

PayNext ==
    \/ Isa835 \/ N1Payer \/ N1Payee \/ Bpr \/ Trn \/ DtmHeader \/ Clp
    \/ CasClaim \/ Svc \/ CasLine \/ DtmClaim \/ Nm1Patient \/ SkipSegment
    \/ Return

-----------------------------------------------------------------------------
(* C3, C7, C8 *)

\* A set of positions in increasing order.
RECURSIVE Ascending(_)
Ascending(S) ==
    IF S = {} THEN <<>>
    ELSE LET least == CHOOSE x \in S : \A y \in S : x <= y
         IN  <<least>> \o Ascending(S \ {least})

\* The positions, among the segments read so far, of the CLP segments with at
\* least 5 elements, in source order.
ClaimPositions ==
    Ascending({i \in 1..seg_index : segments[i][1] = CLP /\ Len(segments[i]) >= 5})

\* The last position of the k-th claim's part of the segments read so far.
ClaimEnd(k) ==
    IF k < Len(ClaimPositions) THEN ClaimPositions[k + 1] - 1 ELSE seg_index

\* The extraction is under way or has returned (it has not raised).
Running == ppc \in {"loop", "done"}

\* The record of the k-th CLP: emitted, or still open.
RecordOf(k) == IF k <= Len(payments) THEN payments[k] ELSE current_payment[1]

\* The record r was opened by the CLP segment sg.
OpenedBy(r, sg) ==
    /\ r.payment.patient_control_number = sg[2]
    /\ r.payment.claim_status_code = sg[3]
    /\ r.payment.paid_amount = parse_amount(sg[5])

\* C3: extract_payments emits exactly one payment record per CLP segment with at
\* least 5 elements, in source order: while the segments are read, the records of
\* all these CLPs but the last are in the output and the last one's is the open
\* payment; at the return the last one's is in the output too.
C3_OnePaymentPerClaim ==
    Running =>
        /\ Len(payments) =
               IF ppc = "done" \/ ClaimPositions = <<>> THEN Len(ClaimPositions)
               ELSE Len(ClaimPositions) - 1
        /\ (current_payment = <<>>) = (ClaimPositions = <<>>)
        /\ \A k \in 1..Len(ClaimPositions) :
               OpenedBy(RecordOf(k), segments[ClaimPositions[k]])

\* A document of several claims that ends with a CLP segment has returned, and the
\* record of that last CLP closes the output.
C3_Witness ==
    /\ ppc = "done"
    /\ Len(segments) >= 3
    /\ Len(ClaimPositions) >= 2
    /\ ClaimPositions[Len(ClaimPositions)] = Len(segments)
    /\ Len(payments) = Len(ClaimPositions)
    /\ OpenedBy(payments[Len(payments)], segments[Len(segments)])
    /\ payments[1].payment.patient_control_number
           # payments[Len(payments)].payment.patient_control_number

\* The positions from..to of the segments with identifier id and at least 4
\* elements, in source order.
Positions(id, from, to) ==
    Ascending({i \in from..to : segments[i][1] = id /\ Len(segments[i]) >= 4})

\* The entries of the CAS segments at the positions ps, in order, at a level.
RECURSIVE EntriesAt(_, _)
EntriesAt(ps, level) ==
    IF ps = <<>> THEN <<>>
    ELSE Levelled(segments[Head(ps)], level) \o EntriesAt(Tail(ps), level)

\* C7: every CAS segment with at least 4 elements read while a payment is open
\* is routed by whether a service line is open: to the payment's claim-level
\* adjustments (level 'claim') when no SVC has been accepted since the payment's
\* CLP, and otherwise to the adjustments of the service line opened last (level
\* 'line'), never to both; a CAS read before any payment is open adds nothing.
C7_CasRouting ==
    Running =>
        /\ ClaimPositions = <<>> => payments = <<>> /\ current_payment = <<>>
        /\ \A k \in 1..Len(ClaimPositions) :
               LET first == ClaimPositions[k] + 1
                   last  == ClaimEnd(k)
                   svcs  == Positions(SVC, first, last)
                   r     == RecordOf(k)
                   lineEnd(j) == IF j < Len(svcs) THEN svcs[j + 1] - 1 ELSE last
               IN  /\ r.adjustments =
                          EntriesAt(Positions(CAS, first,
                                              IF svcs = <<>> THEN last ELSE svcs[1] - 1),
                                    "claim")
                   /\ Len(r.service_lines) = Len(svcs)
                   /\ \A j \in 1..Len(svcs) :
                          r.service_lines[j].adjustments =
                              EntriesAt(Positions(CAS, svcs[j] + 1, lineEnd(j)), "line")

\* A payment has been emitted with a claim-level adjustment from a CAS before its
\* SVC and a line-level adjustment from a CAS after it.
C7_Witness ==
    /\ ppc = "done"
    /\ \E k \in 1..Len(payments) :
           /\ payments[k].adjustments # <<>>
           /\ \A a \in Range(payments[k].adjustments) : a.level = "claim"
           /\ \E j \in 1..Len(payments[k].service_lines) :
                  /\ payments[k].service_lines[j].adjustments # <<>>
                  /\ \A a \in Range(payments[k].service_lines[j].adjustments) :
                         a.level = "line"

\* The positions, in the open payment's part of the segments read so far, of the
\* paid-date DTM segments (qualifier 573 or 050) that carry a valid date.
PaidDatePositions ==
    IF ClaimPositions = <<>> THEN <<>>
    ELSE Ascending({i \in (ClaimPositions[Len(ClaimPositions)] + 1)..seg_index :
                       /\ segments[i][1] = DTM
                       /\ Len(segments[i]) >= 3
                       /\ segments[i][2] \in {Q573, Q050}
                       /\ parse_date(segments[i][3]) # None})

\* C8: within one open payment, payment_date keeps the first valid paid-date read:
\* a later paid-date segment (573 or 050) does not replace a valid date already
\* recorded.
C8_KeepsFirstPaidDate ==
    (ppc = "loop" /\ PaidDatePositions # <<>>) =>
        current_payment[1].payment.payment_date
            = parse_date(segments[PaidDatePositions[1]][3])

-----------------------------------------------------------------------------
(* edi_utils.py: split_composite, the calls *)

\* Bound of the composite values: up to MaxCompLen characters of CompChars (two
\* letters and the three separators met); the declared separators.
MaxCompLen == 4

CompChars == {"H", "9", ":", ">", "*"}

DeclaredSeps == {":", ">", "*", ""}

\* The composites of the documented cases: HC:99213:25 and HC>99213>25
CompColons == <<"H", "C", ":", "9", "9", "2", "1", "3", ":", "2", "5">>
CompAngles == <<"H", "C", ">", "9", "9", "2", "1", "3", ">", "2", "5">>

SplitInit ==
    /\ composite \in StringsUpTo(CompChars, MaxCompLen) \cup {CompColons, CompAngles}
    /\ declared_sep \in DeclaredSeps
    /\ parts = <<>>
    /\ spc = "call"

\* One call of split_composite.
SplitComposite ==
    /\ spc = "call"
    /\ parts' = split_composite(composite, declared_sep)
    /\ spc' = "done"
    /\ UNCHANGED <<composite, declared_sep>>

SplitNext ==
    SplitComposite /\ UNCHANGED <<earlierVars, ediVars, claimVars, folderVars, twiceVars, loadVars, stepVars>>

-----------------------------------------------------------------------------
(* C12 *)

\* The components ps with the character s between them.
RECURSIVE Join(_, _)
Join(ps, s) ==
    IF ps = <<>> THEN <<>>
    ELSE IF Len(ps) = 1 THEN ps[1]
    ELSE ps[1] \o <<s>> \o Join(Tail(ps), s)

\* ps is the value v cut at every occurrence of the character s.
CutAt(ps, v, s) ==
    /\ ps # <<>>
    /\ Join(ps, s) = v
    /\ \A i \in 1..Len(ps) : s \notin Range(ps[i])

\* The separator the policy selects for a value: the declared one when the value
\* contains it, else ':', else '>', else none ("").
SelectedSep(v, declared) ==
    IF declared # "" /\ declared \in Range(v) THEN declared
    ELSE IF ":" \in Range(v) THEN ":"
    ELSE IF ">" \in Range(v) THEN ">"
    ELSE ""

\* The result the policy gives for a value.
PolicyResult(ps, v, declared) ==
    IF SelectedSep(v, declared) = "" THEN ps = <<v>>
    ELSE CutAt(ps, v, SelectedSep(v, declared))

\* C12 as stated: split_composite splits on the declared separator whenever the
\* value contains it, falls back to ':' and then '>' only when it does not, and
\* returns the value as a single-component result when none of the three occurs.
C12_SplitOrSingle ==
    spc = "done" => PolicyResult(parts, composite, declared_sep)

\* C12, amended: the same for every non-empty value; the empty value gives the
\* empty list, not a single empty component.
C12_SplitNonEmpty ==
    spc = "done" =>
        IF composite = <<>> THEN parts = <<>>
        ELSE PolicyResult(parts, composite, declared_sep)

\* HC>99213>25 with declared separator ':' has been split on the fallback '>'.
C12_Witness ==
    /\ spc = "done"
    /\ composite = CompAngles
    /\ declared_sep = ":"
    /\ parts = << <<"H", "C">>, <<"9", "9", "2", "1", "3">>, <<"2", "5">> >>

-----------------------------------------------------------------------------
(* edi_utils.py: parse_edi_content *)

\* str.replace(ch, "") for the characters cs
Without(text, cs) == SelectSeq(text, LAMBDA c : c \notin cs)

\* seg.strip().replace("\n", "").replace("\r", "")
Cleaned(raw) == Without(Strip(raw), {"\n", "\r"})

\* A slip: the raw segments split without the cleaning.
parse_edi_content_uncleaned(text) ==
    LET d   == detect_delimiters(text)
        raw == SelectSeq(Split(text, d.segment), LAMBDA r : Cleaned(r) # <<>>)
    IN  [segments   |-> [i \in 1..Len(raw) |-> Split(raw[i], d.element)],
         delimiters |-> d]

\* parse_edi_content(content)
parse_edi_content(text) ==
    LET d       == detect_delimiters(text)
        raw     == Split(text, d.segment)
        cleaned == [i \in 1..Len(raw) |-> Cleaned(raw[i])]
        kept    == SelectSeq(cleaned, LAMBDA c : c # <<>>)
    IN  [segments   |-> [i \in 1..Len(kept) |-> Split(kept[i], d.element)],
         delimiters |-> d]

\* The documents: up to MaxSegs source segments joined by the terminator in
\* effect, with or without a closing terminator.  Without an envelope the defaults
\* are in effect ('~', '*'); after the envelope ISA|...:! they are '!' and '|'.
MaxSegs == 3

PlainSources ==
    { <<"A", "*", "B">>, <<"\n", "A", "*", "B", " ">>, <<>>, <<" ", "\n">>,
      <<"A", "\n", "B">>, <<"*", "A">> }

EnvelopeSource == SubSeq(Envelope("|", ":", "!"), 1, SegmentOffset)

EnvelopedSources == { <<"A", "|", "B">>, <<"\n", "A", "|", " ">>, <<"A", "*", "B">> }

EdiSources(n) ==
    StringsUpTo(PlainSources, n)
    \cup {<<EnvelopeSource>> \o t : t \in StringsUpTo(EnvelopedSources, n - 1)}

\* The terminator the sources of a document are joined by.
JoinedBy(src) == IF src # <<>> /\ src[1] = EnvelopeSource THEN "!" ELSE "~"

\* str.join
RECURSIVE Joined(_, _)
Joined(src, t) ==
    IF src = <<>> THEN <<>>
    ELSE IF Len(src) = 1 THEN src[1]
    ELSE src[1] \o <<t>> \o Joined(Tail(src), t)

\* What follows the last source: nothing or the terminator; an envelope takes
\* effect only with its terminator at its fixed place.
Closings(src) ==
    IF JoinedBy(src) = "!" THEN {<<"!">>} ELSE {<<>>, <<"~">>}

EdiInit ==
    /\ edi_source \in EdiSources(MaxSegs)
    /\ \E closing \in Closings(edi_source) :
           edi_content = Joined(edi_source, JoinedBy(edi_source)) \o closing
    /\ edi_segments = <<>>
    /\ edi_delimiters = DefaultDelimiters
    /\ epc = "call"

\* One call of parse_edi_content.
ParseEdiContent ==
    /\ epc = "call"
    /\ edi_segments' = parse_edi_content(edi_content).segments
    /\ edi_delimiters' = parse_edi_content(edi_content).delimiters
    /\ epc' = "done"
    /\ UNCHANGED <<edi_source, edi_content>>

EdiNext ==
    ParseEdiContent /\ UNCHANGED <<earlierVars, splitVars, claimVars, folderVars, twiceVars, loadVars, stepVars>>

-----------------------------------------------------------------------------
(* C13 *)

\* The non-blank source segments of the document, in order.
NonBlankSources == SelectSeq(edi_source, LAMBDA x : Strip(x) # <<>>)

\* The delimiters in effect are those the document was built with.
BuiltWith ==
    /\ edi_delimiters.segment = JoinedBy(edi_source)
    /\ edi_delimiters.element = IF JoinedBy(edi_source) = "!" THEN "|" ELSE "*"

\* C13 as stated: a document of N non-blank, terminator-free segments joined by
\* the terminator in effect yields exactly N segments in the original order, the
\* i-th being the i-th source segment split on the element separator; blank
\* segments are discarded and every returned segment has at least one element.
C13_SegmentsAsJoined ==
    epc = "done" =>
        /\ BuiltWith
        /\ Len(edi_segments) = Len(NonBlankSources)
        /\ \A i \in 1..Len(edi_segments) :
               /\ Len(edi_segments[i]) >= 1
               /\ CutAt(edi_segments[i], NonBlankSources[i], edi_delimiters.element)

\* C13, amended: the i-th returned segment is the i-th non-blank source segment,
\* trimmed of surrounding whitespace and with its newline characters removed,
\* split on the element separator.
C13_SegmentsCleaned ==
    epc = "done" =>
        /\ BuiltWith
        /\ Len(edi_segments) = Len(NonBlankSources)
        /\ \A i \in 1..Len(edi_segments) :
               /\ Len(edi_segments[i]) >= 1
               /\ CutAt(edi_segments[i],
                        Without(Strip(NonBlankSources[i]), {"\n", "\r"}),
                        edi_delimiters.element)

\* A document of three source segments, the second blank and the third wrapped
\* in whitespace, has been tokenized into two segments.
C13_Witness ==
    /\ epc = "done"
    /\ edi_source = << <<"A", "*", "B">>, <<" ", "\n">>, <<"\n", "A", "*", "B", " ">> >>
    /\ edi_segments = << << <<"A">>, <<"B">> >>, << <<"A">>, <<"B">> >> >>

-----------------------------------------------------------------------------
(* parse_837p.py: tables and scalars *)

\* parse_837p.FACILITY_TYPE_MAP
FACILITY_TYPE_MAP ==
    { <<<<"1", "1">>, <<"Office">>>>, <<<<"1", "2">>, <<"Home">>>>,
      <<<<"1", "3">>, <<"Critical Access Hospital">>>>,
      <<<<"1", "4">>, <<"Skilled Nursing Facility">>>>,
      <<<<"1", "8">>, <<"Psychiatric Hospital">>>>,
      <<<<"2", "1">>, <<"Inpatient Hospital">>>>,
      <<<<"2", "2">>, <<"Outpatient Hospital">>>>,
      <<<<"2", "3">>, <<"Emergency Room">>>>,
      <<<<"2", "4">>, <<"Ambulatory Surgical Center">>>>,
      <<<<"3", "1">>, <<"Skilled Nursing Facility">>>>,
      <<<<"3", "2">>, <<"Nursing Facility">>>>,
      <<<<"4", "1">>, <<"Ambulance Land">>>>,
      <<<<"4", "2">>, <<"Ambulance Air/Water">>>>,
      <<<<"5", "1">>, <<"Psychiatric Inpatient">>>>,
      <<<<"6", "1">>, <<"Inpatient Rehab">>>>,
      <<<<"7", "1">>, <<"Public Health Clinic">>>>,
      <<<<"8", "5">>, <<"Critical Access Hospital">>>> }

\* parse_837p.FREQUENCY_TYPE_MAP
FREQUENCY_TYPE_MAP ==
    { <<<<"1">>, <<"Original Claim">>>>, <<<<"7">>, <<"Corrected Claim">>>>,
      <<<<"8">>, <<"Void Claim">>>>, <<<<"5">>, <<"Late Charge Claim">>>>,
      <<<<"6">>, <<"Adjusted Claim">>>> }

\* parse_837p.ASSIGNMENT_MAP
ASSIGNMENT_MAP ==
    { <<<<"A">>, <<"Assigned">>>>,
      <<<<"B">>, <<"Assignment Accepted on Lab Only">>>>,
      <<<<"C">>, <<"Not Assigned">>>> }

\* parse_837p.FILING_INDICATOR_MAP
FILING_INDICATOR_MAP ==
    { <<<<"1", "1">>, <<"Other Non-Federal">>>>, <<<<"1", "2">>, <<"PPO">>>>,
      <<<<"1", "3">>, <<"POS">>>>, <<<<"1", "4">>, <<"EPO">>>>,
      <<<<"1", "5">>, <<"Indemnity">>>>,
      <<<<"1", "6">>, <<"HMO Medicare Risk">>>>, <<<<"1", "7">>, <<"DMO">>>>,
      <<<<"A", "M">>, <<"Auto Medical">>>>,
      <<<<"C", "I">>, <<"Commercial Insurance">>>>,
      <<<<"M", "A">>, <<"Medicare Part A">>>>,
      <<<<"M", "B">>, <<"Medicare Part B">>>>,
      <<<<"M", "C">>, <<"Medicaid">>>>,
      <<<<"C", "H">>, <<"CHAMPUS/TRICARE">>>>,
      <<<<"V", "A">>, <<"Veterans Affairs">>>>,
      <<<<"O", "F">>, <<"Other Federal">>>>,
      <<<<"W", "C">>, <<"Workers Compensation">>>>,
      <<<<"L", "I">>, <<"Liability Insurance">>>>,
      <<<<"B", "L">>, <<"BCBS">>>>, <<<<"F", "I">>, <<"Federal Employees">>>>,
      <<<<"H", "M">>, <<"HMO">>>>, <<<<"T", "V">>, <<"Title V">>>>,
      <<<<"Z", "Z">>, <<"Mutually Defined">>>> }

\* parse_837p.PAYER_RESP_MAP
PAYER_RESP_MAP ==
    { <<<<"P">>, <<"Primary">>>>, <<<<"S">>, <<"Secondary">>>>,
      <<<<"T">>, <<"Tertiary">>>> }

\* parse_837p.DTP_QUALIFIER_MAP
DTP_QUALIFIER_MAP ==
    { <<<<"4", "3", "4">>, <<"Statement Dates">>>>,
      <<<<"4", "3", "5">>, <<"Admission Date">>>>,
      <<<<"0", "9", "6">>, <<"Discharge Date">>>>,
      <<<<"2", "3", "2">>, <<"Statement Period Start">>>>,
      <<<<"2", "3", "3">>, <<"Statement Period End">>>>,
      <<<<"4", "7", "2">>, <<"Service Date">>>>,
      <<<<"4", "7", "3">>, <<"Prescription Date">>>>,
      <<<<"5", "7", "3">>, <<"Claim Paid Date">>>>,
      <<<<"4", "3", "9">>, <<"Accident Date">>>>,
      <<<<"4", "5", "4">>, <<"Initial Treatment Date">>>>,
      <<<<"4", "3", "1">>, <<"Onset of Symptoms">>>> }

\* parse_837p.DIAGNOSIS_TYPE_MAP
DIAGNOSIS_TYPE_MAP ==
    { <<<<"A", "B", "K">>, <<"principal">>>>,
      <<<<"A", "B", "J">>, <<"principal">>>>,
      <<<<"A", "B", "F">>, <<"other">>>>,
      <<<<"A", "P", "R">>, <<"reason_for_visit">>>>,
      <<<<"A", "B", "N">>, <<"reason_for_visit">>>>,
      <<<<"B", "B", "R">>, <<"admitting">>>>,
      <<<<"B", "B", "Q">>, <<"other">>>>,
      <<<<"B", "P">>, <<"external_cause">>>>, <<<<"B", "G">>, <<"drg">>>>,
      <<<<"D", "R">>, <<"drg">>>> }

\* parse_837p.PROVIDER_ROLE_MAP
PROVIDER_ROLE_MAP ==
    { <<<<"7", "1">>, <<"attending">>>>, <<<<"7", "2">>, <<"operating">>>>,
      <<<<"8", "2">>, <<"rendering">>>>,
      <<<<"7", "7">>, <<"service_location">>>>,
      <<<<"D", "N">>, <<"referring">>>>, <<<<"D", "Q">>, <<"supervising">>>>,
      <<<<"O", "B">>, <<"other">>>> }

\* parse_837p.REF_QUALIFIER_MAP
REF_QUALIFIER_MAP ==
    { <<<<"D", "9">>, <<"Claim Identifier">>>>,
      <<<<"E", "A">>, <<"Medical Record Number">>>>,
      <<<<"F", "8">>, <<"Resubmission Original Reference">>>>,
      <<<<"G", "1">>, <<"Prior Authorization Number">>>>,
      <<<<"9", "A">>, <<"Repriced Claim Reference">>>>,
      <<<<"9", "B">>, <<"Referral Number">>>> }

\* d.get(key, default) and key in d, for the tables above.
MapGet(map, key, default) ==
    IF \E p \in map : p[1] = key
    THEN (CHOOSE p \in map : p[1] = key)[2]
    ELSE default

InMap(map, key) == \E p \in map : p[1] = key

\* A character outside 0-9 that str.isdigit accepts and int rejects.
SuperscriptTwo == "²"

\* str.isdigit
isdigit(s) == s # <<>> /\ \A i \in 1..Len(s) : s[i] \in Digits \cup {SuperscriptTwo}

\* The number n < 100 as strftime writes a month or a day.
TwoDigits(n) == <<DigitSeq[(n \div 10) + 1], DigitSeq[(n % 10) + 1]>>

\* The length of what %d matches at position p of s (0: no match), by the
\* alternatives of its pattern in their order.
DayLen(s, p) ==
    LET a == IF p <= Len(s) THEN s[p] ELSE ""
        b == IF p + 1 <= Len(s) THEN s[p + 1] ELSE ""
    IN  IF a = "3" /\ b \in {"0", "1"} THEN 2
        ELSE IF a \in {"1", "2"} /\ b \in Digits THEN 2
        ELSE IF a = "0" /\ b \in Digits \ {"0"} THEN 2
        ELSE IF a \in Digits \ {"0"} THEN 1
        ELSE IF a = " " /\ b \in Digits \ {"0"} THEN 2
        ELSE 0

\* The length of what %m matches at position 5 of s so that %d matches after it
\* (0: no match), by the alternatives of its pattern in their order.
MonthLen(s) ==
    LET a == IF 5 <= Len(s) THEN s[5] ELSE ""
        b == IF 6 <= Len(s) THEN s[6] ELSE ""
        two == \/ a = "1" /\ b \in {"0", "1", "2"}
               \/ a = "0" /\ b \in Digits \ {"0"}
        one == a \in Digits \ {"0"}
    IN  IF two /\ DayLen(s, 7) > 0 THEN 2
        ELSE IF one /\ DayLen(s, 6) > 0 THEN 1
        ELSE 0

\* datetime.strptime(s, '%Y%m%d').strftime('%Y-%m-%d'); None stands for the
\* ValueError (no match, unconverted data left over, no such date).
strptime_strftime(s) ==
    IF Len(s) < 4 \/ ~AllDigits(SubSeq(s, 1, 4)) \/ MonthLen(s) = 0 THEN None
    ELSE LET ml   == MonthLen(s)
             dl   == DayLen(s, 5 + ml)
             y    == NumberOf(SubSeq(s, 1, 4))
             m    == NumberOf(SubSeq(s, 5, 4 + ml))
             dtxt == SubSeq(s, 5 + ml, 4 + ml + dl)
             day  == NumberOf(IF dtxt[1] = " " THEN Tail(dtxt) ELSE dtxt)
         IN  IF 4 + ml + dl = Len(s) /\ y >= 1 /\ day <= DaysIn(y, m)
             THEN NoLeadingZeros(SubSeq(s, 1, 4)) \o <<"-">> \o TwoDigits(m)
                  \o <<"-">> \o TwoDigits(day)
             ELSE None

\* parse_837p.parse_date(date_str, fmt)
parse_date_837p(date_str, fmt) ==
    IF date_str = <<>> THEN None
    ELSE IF fmt = <<"R", "D", "8">> /\ "-" \in Range(date_str)
    THEN strptime_strftime(Split(date_str, "-")[1])
    ELSE strptime_strftime(SubSeq(date_str, 1, IF Len(date_str) < 8 THEN Len(date_str) ELSE 8))

\* The segment opens a claim block: HL with '22' as its element 3.
OpensBlock(sg) == sg[1] = <<"H", "L">> /\ Len(sg) >= 4 /\ sg[4] = <<"2", "2">>

\* get_claim_blocks(segments): the loop, from the segments left, the blocks
\* closed so far and the block being filled.
RECURSIVE BlockLoop(_, _, _)
BlockLoop(segs, closed, current) ==
    LET flushed == IF current # <<>> THEN Append(closed, current) ELSE closed
    IN  IF segs = <<>> THEN flushed
        ELSE IF OpensBlock(Head(segs)) THEN BlockLoop(Tail(segs), flushed, <<Head(segs)>>)
        ELSE IF current # <<>> THEN BlockLoop(Tail(segs), closed, Append(current, Head(segs)))
        ELSE BlockLoop(Tail(segs), closed, current)

get_claim_blocks(segs) == BlockLoop(segs, <<>>, <<>>)

-----------------------------------------------------------------------------
(* parse_837p.py: extract_claim and parse_837p_file, a step per segment *)

\* os.path.basename(file_path)
claim_file_name == <<"claims.837">>

\* Segment identifiers of the 837P
CLM == <<"C", "L", "M">>
SBR == <<"S", "B", "R">>
PRV == <<"P", "R", "V">>
DTP == <<"D", "T", "P">>
HI  == <<"H", "I">>
REF == <<"R", "E", "F">>
LX  == <<"L", "X">>
SV1 == <<"S", "V", "1">>
E85 == <<"8", "5">>

\* claim = {'claim_type': ..., 'file_name': ..., 'file_type': ...}; a key not
\* yet set is Missing.
EmptyClaim ==
    [claim_type |-> <<"professional">>, file_name |-> claim_file_name,
     file_type |-> <<"837P">>,
     claim_id |-> Missing, total_charge_amount |-> Missing,
     facility_type_code |-> Missing, facility_type_desc |-> Missing,
     facility_code_qualifier |-> Missing,
     claim_frequency_type_code |-> Missing, claim_frequency_type_desc |-> Missing,
     assignment_code |-> Missing, assignment_desc |-> Missing,
     benefits_assignment |-> Missing, release_of_info_code |-> Missing,
     claim_filing_indicator_code |-> Missing, claim_filing_indicator_desc |-> Missing,
     prior_auth_number |-> Missing, prior_auth_status |-> Missing,
     payer_responsibility_code |-> Missing, payer_responsibility_desc |-> Missing,
     payer_name |-> Missing, payer_id |-> Missing]

EmptySbrData == [payer_responsibility_code |-> Missing, payer_responsibility_desc |-> Missing]

EmptyPayerData == [payer_name |-> Missing, payer_id |-> Missing]

\* The claim after the CLM segment sg.
ClaimAfterClm(c, sg, sep) ==
    LET location == split_composite(safe_get(sg, 5, <<>>), sep)
        n        == Len(location)
        c1 == [c EXCEPT !.claim_id = safe_get(sg, 1, <<>>),
                        !.total_charge_amount = safe_get(sg, 2, <<>>)]
        c2 == IF n >= 1
              THEN [c1 EXCEPT !.facility_type_code = location[1],
                              !.facility_type_desc =
                                  MapGet(FACILITY_TYPE_MAP, location[1], <<>>)]
              ELSE c1
        c3 == IF n >= 2 THEN [c2 EXCEPT !.facility_code_qualifier = location[2]] ELSE c2
        c4 == IF n >= 3
              THEN [c3 EXCEPT !.claim_frequency_type_code = location[3],
                              !.claim_frequency_type_desc =
                                  MapGet(FREQUENCY_TYPE_MAP, location[3], <<>>)]
              ELSE c3
        c5 == IF Len(sg) >= 8
              THEN [c4 EXCEPT !.assignment_code = safe_get(sg, 7, <<>>),
                              !.assignment_desc =
                                  MapGet(ASSIGNMENT_MAP, safe_get(sg, 7, <<>>), <<>>)]
              ELSE c4
        c6 == IF Len(sg) >= 9
              THEN [c5 EXCEPT !.benefits_assignment = safe_get(sg, 8, <<>>)]
              ELSE c5
    IN  IF Len(sg) >= 10
        THEN [c6 EXCEPT !.release_of_info_code = safe_get(sg, 9, <<>>)]
        ELSE c6

\* The provider dict of a claim-level NM1 segment.
ClaimProvider(sg) ==
    [provider_role |-> MapGet(PROVIDER_ROLE_MAP, safe_get(sg, 1, <<>>), <<"other">>),
     entity_identifier_code |-> safe_get(sg, 1, <<>>),
     entity_type_qualifier |-> safe_get(sg, 2, <<>>),
     last_or_org_name |-> safe_get(sg, 3, <<>>),
     first_name |-> safe_get(sg, 4, <<>>),
     middle_name |-> safe_get(sg, 5, <<>>),
     id_code_qualifier |-> IF Len(sg) >= 10 THEN safe_get(sg, 8, <<>>) ELSE Missing,
     npi |-> IF Len(sg) >= 10 THEN safe_get(sg, 9, <<>>) ELSE Missing,
     taxonomy_code |-> Missing]

\* The provider dict of an NM1*85 segment.
BillingProvider(sg) ==
    [provider_role |-> <<"billing">>,
     entity_identifier_code |-> E85,
     entity_type_qualifier |-> safe_get(sg, 2, <<>>),
     last_or_org_name |-> safe_get(sg, 3, <<>>),
     first_name |-> safe_get(sg, 4, <<>>),
     middle_name |-> Missing,
     id_code_qualifier |-> safe_get(sg, 8, <<>>),
     npi |-> safe_get(sg, 9, <<>>),
     taxonomy_code |-> Missing]

\* A slip: the loop without its break, so that every provider without a
\* taxonomy code receives the code.
WithTaxonomyForAll(provs, code) ==
    [i \in 1..Len(provs) |->
        IF ~Truthy(Get(provs[i].taxonomy_code, None))
        THEN [provs[i] EXCEPT !.taxonomy_code = code]
        ELSE provs[i]]

\* for prov in providers: if not prov.get('taxonomy_code'): set it and break
WithTaxonomy(provs, code) ==
    LET open == {i \in 1..Len(provs) : ~Truthy(Get(provs[i].taxonomy_code, None))}
        k    == CHOOSE i \in open : \A j \in open : i <= j
    IN  IF open = {} THEN provs
        ELSE [provs EXCEPT ![k] = [@ EXCEPT !.taxonomy_code = code]]

\* 'diagnosis_type': DIAGNOSIS_TYPE_MAP.get(qualifier, 'other')
DiagnosisType(qualifier) == MapGet(DIAGNOSIS_TYPE_MAP, qualifier, <<"other">>)

\* A slip: the sequence number of an entry is the position of its element
\* in the HI segment.
RECURSIVE HiLoopByElement(_, _, _, _)
HiLoopByElement(sg, i, dx, sep) ==
    IF i >= Len(sg) THEN dx
    ELSE LET composite_parts == split_composite(sg[i + 1], sep)
         IN  IF Len(composite_parts) >= 2
             THEN HiLoopByElement(sg, i + 1,
                         Append(dx, [diagnosis_code |-> composite_parts[2],
                                     diagnosis_type |-> DiagnosisType(composite_parts[1]),
                                     code_qualifier |-> composite_parts[1],
                                     sequence_number |-> i]),
                         sep)
             ELSE HiLoopByElement(sg, i + 1, dx, sep)

\* for i in range(1, len(seg)): the diagnoses after the elements i.. of the HI
\* segment sg
RECURSIVE HiLoop(_, _, _, _)
HiLoop(sg, i, dx, sep) ==
    IF i >= Len(sg) THEN dx
    ELSE LET composite_parts == split_composite(sg[i + 1], sep)
         IN  IF Len(composite_parts) >= 2
             THEN HiLoop(sg, i + 1,
                         Append(dx, [diagnosis_code |-> composite_parts[2],
                                     diagnosis_type |-> DiagnosisType(composite_parts[1]),
                                     code_qualifier |-> composite_parts[1],
                                     sequence_number |-> Len(dx) + 1]),
                         sep)
             ELSE HiLoop(sg, i + 1, dx, sep)

\* int(s) of a str that passed isdigit raises ValueError
IntRaises(s) == isdigit(s) /\ ~AllDigits(s)

\* 'current_line_number' as a condition of the SV1 and line DTP branches
LineContext(cln) == Truthy(cln)

\* int(current_line_number) if current_line_number.isdigit() else 1
LineNumber(cln) == IF isdigit(cln) THEN NumberOf(cln) ELSE 1

\* The service line dict of the SV1 segment sg.
ServiceLine(sg, cln, sep) ==
    LET proc_parts == split_composite(safe_get(sg, 1, <<>>), sep)
        n          == Len(proc_parts)
    IN  [line_number |-> LineNumber(cln),
         procedure_code |-> IF n >= 2 THEN proc_parts[2] ELSE <<>>,
         procedure_qualifier |-> IF n >= 1 THEN proc_parts[1] ELSE <<>>,
         charge_amount |-> safe_get(sg, 2, <<>>),
         unit_measurement_code |-> safe_get(sg, 3, <<>>),
         unit_count |-> safe_get(sg, 4, <<>>),
         modifier_1 |-> IF n > 2 THEN proc_parts[3] ELSE Missing,
         modifier_2 |-> IF n > 3 THEN proc_parts[4] ELSE Missing,
         modifier_3 |-> IF n > 4 THEN proc_parts[5] ELSE Missing,
         modifier_4 |-> IF n > 5 THEN proc_parts[6] ELSE Missing,
         place_of_service_code |-> IF Len(sg) >= 6 THEN safe_get(sg, 5, <<>>) ELSE Missing]

\* The date dict of a DTP segment.
HeaderDate(sg) ==
    [date_qualifier |-> safe_get(sg, 1, <<>>),
     date_qualifier_desc |-> MapGet(DTP_QUALIFIER_MAP, safe_get(sg, 1, <<>>), <<>>),
     date_format_qualifier |-> safe_get(sg, 2, <<>>),
     date_value |-> safe_get(sg, 3, <<>>),
     parsed_date |-> parse_date_837p(safe_get(sg, 3, <<>>), safe_get(sg, 2, <<>>))]

\* A slip: every line date carries line number 1.
LineDateOfLineOne(sg, cln) ==
    [line_number |-> 1,
     date_qualifier |-> safe_get(sg, 1, <<>>),
     date_qualifier_desc |-> MapGet(DTP_QUALIFIER_MAP, safe_get(sg, 1, <<>>), <<>>),
     date_format_qualifier |-> safe_get(sg, 2, <<>>),
     date_value |-> safe_get(sg, 3, <<>>),
     parsed_date |-> parse_date_837p(safe_get(sg, 3, <<>>), safe_get(sg, 2, <<>>))]

\* The date dict of a DTP segment after an LX segment.
LineDate(sg, cln) ==
    [line_number |-> LineNumber(cln),
     date_qualifier |-> safe_get(sg, 1, <<>>),
     date_qualifier_desc |-> MapGet(DTP_QUALIFIER_MAP, safe_get(sg, 1, <<>>), <<>>),
     date_format_qualifier |-> safe_get(sg, 2, <<>>),
     date_value |-> safe_get(sg, 3, <<>>),
     parsed_date |-> parse_date_837p(safe_get(sg, 3, <<>>), safe_get(sg, 2, <<>>))]

\* The reference dict of a REF segment.
Reference(sg) ==
    [reference_qualifier |-> safe_get(sg, 1, <<>>),
     reference_qualifier_desc |-> MapGet(REF_QUALIFIER_MAP, safe_get(sg, 1, <<>>), <<>>),
     reference_value |-> safe_get(sg, 2, <<>>)]

\* claim.update(sbr_data); claim.update(payer_data)
Merged(c, sbr, payer) ==
    [c EXCEPT !.payer_responsibility_code = Get(sbr.payer_responsibility_code, @),
              !.payer_responsibility_desc = Get(sbr.payer_responsibility_desc, @),
              !.payer_name = Get(payer.payer_name, @),
              !.payer_id = Get(payer.payer_id, @)]

\* extract_file_metadata(segments, file_name): the loop, from the segments left,
\* the metadata and the billing provider (no provider: <<>>) so far
EmptyMetadata ==
    [file_name |-> claim_file_name, sender_id |-> Missing, receiver_id |-> Missing,
     transaction_type |-> Missing, gs_sender |-> Missing, gs_receiver |-> Missing,
     transaction_set |-> Missing]

RECURSIVE MetadataLoop(_, _, _)
MetadataLoop(segs, md, bp) ==
    IF segs = <<>> THEN <<md, bp>>
    ELSE LET sg == Head(segs)
             id == sg[1]
         IN  IF id = ISA /\ Len(sg) >= 16
             THEN MetadataLoop(Tail(segs),
                               [md EXCEPT !.sender_id = Strip(safe_get(sg, 6, <<>>)),
                                          !.receiver_id = Strip(safe_get(sg, 8, <<>>))],
                               bp)
             ELSE IF id = <<"G", "S">> /\ Len(sg) >= 9
             THEN MetadataLoop(Tail(segs),
                               [md EXCEPT !.transaction_type = safe_get(sg, 1, <<>>),
                                          !.gs_sender = safe_get(sg, 2, <<>>),
                                          !.gs_receiver = safe_get(sg, 3, <<>>)],
                               bp)
             ELSE IF id = <<"S", "T">> /\ Len(sg) >= 2
             THEN MetadataLoop(Tail(segs),
                               [md EXCEPT !.transaction_set = safe_get(sg, 1, <<>>)], bp)
             ELSE IF id = NM1 /\ safe_get(sg, 1, <<>>) = E85 /\ Len(sg) >= 10
             THEN MetadataLoop(Tail(segs), md, <<BillingProvider(sg)>>)
             ELSE IF /\ id = PRV /\ safe_get(sg, 1, <<>>) = <<"B", "I">>
                     /\ bp # <<>> /\ Len(sg) >= 4
             THEN MetadataLoop(Tail(segs), md,
                               <<[bp[1] EXCEPT !.taxonomy_code = safe_get(sg, 3, <<>>)]>>)
             ELSE MetadataLoop(Tail(segs), md, bp)

extract_file_metadata(segs) == MetadataLoop(segs, EmptyMetadata, <<>>)

\* The concatenation of the sequences that are the entries of ss.
RECURSIVE Concat(_)
Concat(ss) == IF ss = <<>> THEN <<>> ELSE Head(ss) \o Concat(Tail(ss))

AllDates(cs) == Concat([i \in 1..Len(cs) |-> cs[i].dates_header \o cs[i].dates_line])
AllReferences(cs) == Concat([i \in 1..Len(cs) |-> cs[i].references])
AllDiagnoses(cs) == Concat([i \in 1..Len(cs) |-> cs[i].diagnoses])

\* summary['warnings'] after the loop over the claims
FilingWarnings(cs) ==
    Concat([i \in 1..Len(cs) |->
        IF /\ Truthy(Get(cs[i].claim.claim_filing_indicator_code, None))
           /\ ~Truthy(Get(cs[i].claim.claim_filing_indicator_desc, None))
        THEN << <<"Unknown filing indicator: ">> \o cs[i].claim.claim_filing_indicator_code >>
        ELSE <<>>])

\* build_parse_summary(claims)
build_parse_summary(cs) ==
    LET dts == AllDates(cs)
        rfs == AllReferences(cs)
        dxs == AllDiagnoses(cs)
        warnings == FilingWarnings(cs)
    IN  [warnings |-> SubSeq(warnings, 1, IF Len(warnings) < 25 THEN Len(warnings) ELSE 25),
         unknown_dtp_qualifiers |->
             Sorted({dts[i].date_qualifier : i \in
                        {j \in 1..Len(dts) : /\ Truthy(dts[j].date_qualifier)
                                             /\ ~Truthy(dts[j].date_qualifier_desc)}}),
         unknown_ref_qualifiers |->
             Sorted({rfs[i].reference_qualifier : i \in
                        {j \in 1..Len(rfs) : /\ Truthy(rfs[j].reference_qualifier)
                                             /\ ~Truthy(rfs[j].reference_qualifier_desc)}}),
         unknown_diagnosis_qualifiers |->
             Sorted({dxs[i].code_qualifier : i \in
                        {j \in 1..Len(dxs) : /\ Truthy(dxs[j].code_qualifier)
                                             /\ dxs[j].diagnosis_type = <<"other">>
                                             /\ ~InMap(DIAGNOSIS_TYPE_MAP, dxs[j].code_qualifier)}}),
         invalid_dates |->
             Cardinality({j \in 1..Len(dts) : /\ Truthy(dts[j].date_value)
                                              /\ dts[j].parsed_date = None})]

-----------------------------------------------------------------------------
(* parse_837p.py: the documents *)

\* HL*2*1*22*0
SegHL22 == <<<<"H", "L">>, <<"2">>, <<"1">>, <<"2", "2">>, <<"0">>>>
\* HL*1**20*1
SegHL20 == <<<<"H", "L">>, <<"1">>, <<>>, <<"2", "0">>, <<"1">>>>
\* HL*3
SegHLShort == <<<<"H", "L">>, <<"3">>>>
\* CLM*A1*100***11:B:1*Y*A*Y*I
SegClm == <<<<"C", "L", "M">>, <<"A", "1">>, <<"1", "0", "0">>, <<>>, <<>>,
    <<"1", "1", ":", "B", ":", "1">>, <<"Y">>, <<"A">>, <<"Y">>, <<"I">>>>
\* CLM*B2*75***22:B:7
SegClmSecond == <<<<"C", "L", "M">>, <<"B", "2">>, <<"7", "5">>, <<>>, <<>>,
    <<"2", "2", ":", "B", ":", "7">>>>
\* CLM*A1
SegClmShort == <<<<"C", "L", "M">>, <<"A", "1">>>>
\* SBR*P*18*******ZQ
SegSbr == <<<<"S", "B", "R">>, <<"P">>, <<"1", "8">>, <<>>, <<>>, <<>>, <<>>,
    <<>>, <<>>, <<"Z", "Q">>>>
\* NM1*PR*2*ACME*****PI*P1
SegNm1Payer == <<<<"N", "M", "1">>, <<"P", "R">>, <<"2">>, <<"A", "C", "M",
    "E">>, <<>>, <<>>, <<>>, <<>>, <<"P", "I">>, <<"P", "1">>>>
\* NM1*82*1*DOE*JANE****XX*123
SegNm1Rendering == <<<<"N", "M", "1">>, <<"8", "2">>, <<"1">>, <<"D", "O",
    "E">>, <<"J", "A", "N", "E">>, <<>>, <<>>, <<>>, <<"X", "X">>, <<"1", "2",
    "3">>>>
\* NM1*85*2*CLINIC*****XX*999
SegNm1Billing == <<<<"N", "M", "1">>, <<"8", "5">>, <<"2">>, <<"C", "L", "I",
    "N", "I", "C">>, <<>>, <<>>, <<>>, <<>>, <<"X", "X">>, <<"9", "9", "9">>>>
\* PRV*PE*PXC*207Q
SegPrv == <<<<"P", "R", "V">>, <<"P", "E">>, <<"P", "X", "C">>, <<"2", "0",
    "7", "Q">>>>
\* PRV*BI*PXC*208D
SegPrvBilling == <<<<"P", "R", "V">>, <<"B", "I">>, <<"P", "X", "C">>, <<"2",
    "0", "8", "D">>>>
\* DTP*431*D8*20260101
SegDtpOnset == <<<<"D", "T", "P">>, <<"4", "3", "1">>, <<"D", "8">>, <<"2",
    "0", "2", "6", "0", "1", "0", "1">>>>
\* DTP*999*D8*202610
SegDtpBad == <<<<"D", "T", "P">>, <<"9", "9", "9">>, <<"D", "8">>, <<"2", "0",
    "2", "6", "1", "0">>>>
\* DTP*472*RD8*20260101-20260105
SegDtpRange == <<<<"D", "T", "P">>, <<"4", "7", "2">>, <<"R", "D", "8">>,
    <<"2", "0", "2", "6", "0", "1", "0", "1", "-", "2", "0", "2", "6", "0",
    "1", "0", "5">>>>
\* HI*ABK:Z00*ABF:Z01
SegHiPrincipal == <<<<"H", "I">>, <<"A", "B", "K", ":", "Z", "0", "0">>,
    <<"A", "B", "F", ":", "Z", "0", "1">>>>
\* HI*ABF:Z01
SegHiOther == <<<<"H", "I">>, <<"A", "B", "F", ":", "Z", "0", "1">>>>
\* HI*ZZ:Q1*BAD*AA:Q2
SegHiUnknown == <<<<"H", "I">>, <<"Z", "Z", ":", "Q", "1">>, <<"B", "A",
    "D">>, <<"A", "A", ":", "Q", "2">>>>
\* REF*G1*AUTH1
SegRefAuth == <<<<"R", "E", "F">>, <<"G", "1">>, <<"A", "U", "T", "H", "1">>>>
\* REF*ZZ*V
SegRefUnknown == <<<<"R", "E", "F">>, <<"Z", "Z">>, <<"V">>>>
\* LX*1
SegLx1 == <<<<"L", "X">>, <<"1">>>>
\* LX*
SegLxEmpty == <<<<"L", "X">>, <<>>>>
\* LX*²
SegLxSuperscript == <<<<"L", "X">>, <<"²">>>>
\* LX*X
SegLxLetter == <<<<"L", "X">>, <<"X">>>>
\* LX*007
SegLx007 == <<<<"L", "X">>, <<"0", "0", "7">>>>
\* SV1*HC:99213:25*50*UN*1*11
SegSv1 == <<<<"S", "V", "1">>, <<"H", "C", ":", "9", "9", "2", "1", "3", ":",
    "2", "5">>, <<"5", "0">>, <<"U", "N">>, <<"1">>, <<"1", "1">>>>
\* SV1*HC
SegSv1Short == <<<<"S", "V", "1">>, <<"H", "C">>>>
\* GS*HC*SENDER*RECEIVER*20260101*1200*1*X*005010X222A1
SegGs == <<<<"G", "S">>, <<"H", "C">>, <<"S", "E", "N", "D", "E", "R">>,
    <<"R", "E", "C", "E", "I", "V", "E", "R">>, <<"2", "0", "2", "6", "0",
    "1", "0", "1">>, <<"1", "2", "0", "0">>, <<"1">>, <<"X">>, <<"0", "0",
    "5", "0", "1", "0", "X", "2", "2", "2", "A", "1">>>>
\* ST*837*0001
SegSt == <<<<"S", "T">>, <<"8", "3", "7">>, <<"0", "0", "0", "1">>>>

MaxClaimDoc == 4

\* The segments the documents are made of, by the part of the decoding they
\* exercise.
ClaimSegmentGroups ==
    { {SegHL22, SegHL20, SegClm, SegClmSecond},
      {SegHL22, SegHiPrincipal, SegHiOther, SegHiUnknown},
      {SegHL22, SegLx1, SegLxEmpty, SegSv1},
      {SegHL22, SegLxSuperscript, SegLxLetter, SegSv1},
      {SegHL22, SegDtpBad, SegLx007, SegDtpRange},
      {SegHL22, SegDtpOnset, SegSv1Short, SegClmShort},
      {SegHL22, SegNm1Rendering, SegPrv, SegLx1},
      {SegHL22, SegLx1, SegNm1Billing, SegSv1},
      {SegHL22, SegSbr, SegNm1Payer, SegRefAuth},
      {SegHL22, SegRefUnknown, SegClm, SegSbr},
      {SegNm1Billing, SegPrvBilling, SegHL22, SegNm1Rendering},
      {SegGs, SegSt, SegHL22, SegHLShort} }

\* SV1*HC:99214*75*UN*2
SegSv1Other == <<<<"S", "V", "1">>, <<"H", "C", ":", "9", "9", "2", "1", "4">>,
    <<"7", "5">>, <<"U", "N">>, <<"2">>>>

\* PRV*PE*PXC* (an empty taxonomy code)
SegPrvEmpty == <<<<"P", "R", "V">>, <<"P", "E">>, <<"P", "X", "C">>, <<>>>>

\* Further documents of one block: header segments after an LX (a CLM and a
\* date, a diagnosis and a reference); diagnoses of two HI segments and two
\* service lines numbered 7 and 1; dates before, between and after two LX
\* segments; dates after an LX without a number, after an LX with a letter
\* and after an LX with a superscript digit; two providers followed by two
\* PRV segments, the first of which may have an empty code.
LongClaimDocuments ==
    { <<SegHL22, SegLx1, SegClm, SegDtpOnset>>,
      <<SegHL22, SegClm, SegLx1, SegClmSecond, SegDtpOnset>>,
      <<SegHL22, SegLx1, SegHiPrincipal, SegRefAuth>>,
      <<SegHL22, SegHiPrincipal, SegHiUnknown, SegLx007, SegSv1, SegLx1, SegSv1Other>>,
      <<SegHL22, SegDtpOnset, SegLx007, SegDtpRange, SegLx1, SegDtpBad>>,
      <<SegHL22, SegLxEmpty, SegDtpOnset, SegLxLetter, SegDtpRange>>,
      <<SegHL22, SegLxSuperscript, SegDtpOnset>>,
      <<SegHL22, SegNm1Billing, SegNm1Rendering, SegPrv, SegPrvBilling>>,
      <<SegHL22, SegNm1Rendering, SegNm1Billing, SegPrvEmpty, SegPrv>> }

\* The tokenized documents: those of at most n segments of one group, and the
\* longer ones.
ClaimDocuments(n) ==
    UNION {StringsUpTo(g, n) : g \in ClaimSegmentGroups} \cup LongClaimDocuments

\* parse_837p_file up to the loop over the blocks, and extract_claim's locals at
\* its entry
FreshLocals ==
    /\ claim' = EmptyClaim
    /\ lines' = <<>>
    /\ diagnoses' = <<>>
    /\ dates_header' = <<>>
    /\ dates_line' = <<>>
    /\ providers' = <<>>
    /\ references' = <<>>
    /\ current_line_number' = None
    /\ in_header' = TRUE
    /\ sbr_data' = EmptySbrData
    /\ payer_data' = EmptyPayerData

ClaimInit ==
    /\ file_segments \in ClaimDocuments(MaxClaimDoc)
    /\ file_delimiters = DefaultDelimiters
    /\ blocks = get_claim_blocks(file_segments)
    /\ metadata = extract_file_metadata(file_segments)[1]
    /\ billing_provider = extract_file_metadata(file_segments)[2]
    /\ block_index = 1
    /\ block_pos = 1
    /\ claim = EmptyClaim
    /\ lines = <<>>
    /\ diagnoses = <<>>
    /\ dates_header = <<>>
    /\ dates_line = <<>>
    /\ providers = <<>>
    /\ references = <<>>
    /\ current_line_number = None
    /\ in_header = TRUE
    /\ sbr_data = EmptySbrData
    /\ payer_data = EmptyPayerData
    /\ claims = <<>>
    /\ file_result = <<>>
    /\ xpc = "extract"

-----------------------------------------------------------------------------
(* parse_837p.py: the loops *)

\* component_sep = delimiters.get('component', ':')
ComponentSep == file_delimiters.component

\* for seg in block
CurClaimSeg == blocks[block_index][block_pos]

\* The branch of extract_claim's if/elif chain that the segment sg takes when the
\* header flag is hdr and the current line number cln.
ClaimBranch(sg, hdr, cln) ==
    LET id == sg[1]
        n  == Len(sg)
        e1 == safe_get(sg, 1, <<>>)
    IN  IF id = CLM /\ n >= 6 THEN "CLM"
        ELSE IF id = SBR /\ n >= 2 THEN "SBR"
        ELSE IF id = NM1 /\ e1 = PR /\ n >= 4 THEN "NM1_PR"
        ELSE IF id = NM1 /\ e1 # PR /\ hdr /\ n >= 4 THEN "NM1"
        ELSE IF id = NM1 /\ e1 = E85 /\ n >= 10 THEN "NM1_85"
        ELSE IF id = PRV /\ hdr /\ n >= 4 THEN "PRV"
        ELSE IF id = DTP /\ hdr /\ n >= 4 THEN "DTP"
        ELSE IF id = HI /\ hdr THEN "HI"
        ELSE IF id = REF /\ hdr /\ n >= 3 THEN "REF"
        ELSE IF id = LX /\ n >= 2 THEN "LX"
        ELSE IF id = SV1 /\ LineContext(cln) /\ n >= 5 THEN "SV1"
        ELSE IF id = DTP /\ ~hdr /\ LineContext(cln) /\ n >= 4 THEN "DTP_LINE"
        ELSE "skip"

\* The loop of extract_claim is at a segment that takes branch b.
AtClaim(b) ==
    /\ xpc = "extract"
    /\ block_index <= Len(blocks)
    /\ block_pos <= Len(blocks[block_index])
    /\ ClaimBranch(CurClaimSeg, in_header, current_line_number) = b

\* The next iteration of the loop; the file-level state stays.
NextClaimSeg ==
    /\ block_pos' = block_pos + 1
    /\ UNCHANGED <<file_segments, file_delimiters, blocks, metadata, billing_provider,
                   block_index, claims, file_result, xpc>>
    /\ UNCHANGED notClaimVars

\* The ValueError of int() leaves extract_claim and parse_837p_file.
ClaimRaises ==
    /\ xpc' = "raised"
    /\ UNCHANGED <<file_segments, file_delimiters, blocks, metadata, billing_provider,
                   block_index, block_pos, claims, file_result>>
    /\ UNCHANGED <<claim, lines, diagnoses, dates_header, dates_line, providers,
                   references, current_line_number, in_header, sbr_data, payer_data>>
    /\ UNCHANGED notClaimVars

\* A slip: a CLM segment puts the block back into header context.
Clm837Reopening ==
    /\ AtClaim("CLM")
    /\ claim' = ClaimAfterClm(claim, CurClaimSeg, ComponentSep)
    /\ in_header' = TRUE
    /\ NextClaimSeg
    /\ UNCHANGED <<lines, diagnoses, dates_header, dates_line, providers, references,
                   current_line_number, sbr_data, payer_data>>

\* Lines 163-184
Clm837 ==
    /\ AtClaim("CLM")
    /\ claim' = ClaimAfterClm(claim, CurClaimSeg, ComponentSep)
    /\ NextClaimSeg
    /\ UNCHANGED <<lines, diagnoses, dates_header, dates_line, providers, references,
                   current_line_number, in_header, sbr_data, payer_data>>

Sbr ==
    /\ AtClaim("SBR")
    /\ sbr_data' =
           [payer_responsibility_code |-> safe_get(CurClaimSeg, 1, <<>>),
            payer_responsibility_desc |->
                MapGet(PAYER_RESP_MAP, safe_get(CurClaimSeg, 1, <<>>), <<>>)]
    /\ claim' =
           IF Len(CurClaimSeg) >= 10
           THEN [claim EXCEPT
                    !.claim_filing_indicator_code = safe_get(CurClaimSeg, 9, <<>>),
                    !.claim_filing_indicator_desc =
                        MapGet(FILING_INDICATOR_MAP, safe_get(CurClaimSeg, 9, <<>>), <<>>)]
           ELSE claim
    /\ NextClaimSeg
    /\ UNCHANGED <<lines, diagnoses, dates_header, dates_line, providers, references,
                   current_line_number, in_header, payer_data>>

Nm1Payer ==
    /\ AtClaim("NM1_PR")
    /\ payer_data' =
           [payer_name |-> safe_get(CurClaimSeg, 3, <<>>),
            payer_id |-> IF Len(CurClaimSeg) >= 10
                         THEN safe_get(CurClaimSeg, 9, <<>>)
                         ELSE payer_data.payer_id]
    /\ NextClaimSeg
    /\ UNCHANGED <<claim, lines, diagnoses, dates_header, dates_line, providers,
                   references, current_line_number, in_header, sbr_data>>

Nm1Provider ==
    /\ AtClaim("NM1")
    /\ providers' = Append(providers, ClaimProvider(CurClaimSeg))
    /\ NextClaimSeg
    /\ UNCHANGED <<claim, lines, diagnoses, dates_header, dates_line, references,
                   current_line_number, in_header, sbr_data, payer_data>>

Nm1Billing ==
    /\ AtClaim("NM1_85")
    /\ providers' = Append(providers, BillingProvider(CurClaimSeg))
    /\ NextClaimSeg
    /\ UNCHANGED <<claim, lines, diagnoses, dates_header, dates_line, references,
                   current_line_number, in_header, sbr_data, payer_data>>

Prv ==
    /\ AtClaim("PRV")
    /\ providers' = WithTaxonomy(providers, safe_get(CurClaimSeg, 3, <<>>))
    /\ NextClaimSeg
    /\ UNCHANGED <<claim, lines, diagnoses, dates_header, dates_line, references,
                   current_line_number, in_header, sbr_data, payer_data>>

DtpHeader ==
    /\ AtClaim("DTP")
    /\ dates_header' = Append(dates_header, HeaderDate(CurClaimSeg))
    /\ NextClaimSeg
    /\ UNCHANGED <<claim, lines, diagnoses, dates_line, providers, references,
                   current_line_number, in_header, sbr_data, payer_data>>

Hi ==
    /\ AtClaim("HI")
    /\ diagnoses' = HiLoop(CurClaimSeg, 1, diagnoses, ComponentSep)
    /\ NextClaimSeg
    /\ UNCHANGED <<claim, lines, dates_header, dates_line, providers, references,
                   current_line_number, in_header, sbr_data, payer_data>>

Ref ==
    /\ AtClaim("REF")
    /\ references' = Append(references, Reference(CurClaimSeg))
    /\ claim' =
           IF safe_get(CurClaimSeg, 1, <<>>) = <<"G", "1">>
           THEN [claim EXCEPT !.prior_auth_number = safe_get(CurClaimSeg, 2, <<>>),
                              !.prior_auth_status = <<"approved">>]
           ELSE claim
    /\ NextClaimSeg
    /\ UNCHANGED <<lines, diagnoses, dates_header, dates_line, providers,
                   current_line_number, in_header, sbr_data, payer_data>>

Lx ==
    /\ AtClaim("LX")
    /\ in_header' = FALSE
    /\ current_line_number' = safe_get(CurClaimSeg, 1, <<>>)
    /\ NextClaimSeg
    /\ UNCHANGED <<claim, lines, diagnoses, dates_header, dates_line, providers,
                   references, sbr_data, payer_data>>

Sv1 ==
    /\ AtClaim("SV1")
    /\ IF IntRaises(current_line_number)
       THEN ClaimRaises
       ELSE /\ lines' = Append(lines, ServiceLine(CurClaimSeg, current_line_number,
                                                  ComponentSep))
            /\ NextClaimSeg
            /\ UNCHANGED <<claim, diagnoses, dates_header, dates_line, providers,
                           references, current_line_number, in_header, sbr_data,
                           payer_data>>

DtpLine ==
    /\ AtClaim("DTP_LINE")
    /\ IF IntRaises(current_line_number)
       THEN ClaimRaises
       ELSE /\ dates_line' = Append(dates_line, LineDate(CurClaimSeg, current_line_number))
            /\ NextClaimSeg
            /\ UNCHANGED <<claim, lines, diagnoses, dates_header, providers,
                           references, current_line_number, in_header, sbr_data,
                           payer_data>>

SkipClaimSegment ==
    /\ AtClaim("skip")
    /\ NextClaimSeg
    /\ UNCHANGED <<claim, lines, diagnoses, dates_header, dates_line, providers,
                   references, current_line_number, in_header, sbr_data, payer_data>>

\* The dict extract_claim returns.
ClaimData ==
    [claim |-> Merged(claim, sbr_data, payer_data),
     lines |-> lines,
     diagnoses |-> diagnoses,
     dates_header |-> dates_header,
     dates_line |-> dates_line,
     providers |-> providers,
     references |-> references]

\* The file-level billing provider goes first in the providers of a claim that
\* has none of role 'billing'.
WithBillingProvider(cd) ==
    IF /\ billing_provider # <<>>
       /\ \A i \in 1..Len(cd.providers) : cd.providers[i].provider_role # <<"billing">>
    THEN [cd EXCEPT !.providers = billing_provider \o @]
    ELSE cd

\* The claim records are kept as extract_claim returned them.
ReturnClaimWithoutAppend ==
    /\ xpc = "extract"
    /\ block_index <= Len(blocks)
    /\ block_pos > Len(blocks[block_index])
    /\ claims' = claims
    /\ block_index' = block_index + 1
    /\ block_pos' = 1
    /\ FreshLocals
    /\ UNCHANGED <<file_segments, file_delimiters, blocks, metadata, billing_provider,
                   file_result, xpc>>
    /\ UNCHANGED notClaimVars

\* extract_claim returns at the end of the block; parse_837p_file adds the
\* billing provider, appends the record and goes to the next block.
ReturnClaim ==
    /\ xpc = "extract"
    /\ block_index <= Len(blocks)
    /\ block_pos > Len(blocks[block_index])
    /\ claims' = Append(claims, WithBillingProvider(ClaimData))
    /\ block_index' = block_index + 1
    /\ block_pos' = 1
    /\ FreshLocals
    /\ UNCHANGED <<file_segments, file_delimiters, blocks, metadata, billing_provider,
                   file_result, xpc>>
    /\ UNCHANGED notClaimVars

\* parse_837p_file returns after the last block.
ReturnFile ==
    /\ xpc = "extract"
    /\ block_index > Len(blocks)
    /\ file_result' =
           <<[file_name |-> claim_file_name,
              file_type |-> <<"837P">>,
              file_hash |-> <<"sha256 of the file">>,
              record_count |-> Len(claims),
              metadata |-> metadata,
              parse_summary |->
                  build_parse_summary(claims)
                  @@ [segment_delimiter |-> file_delimiters.segment,
                      element_delimiter |-> file_delimiters.element,
                      component_delimiter |-> file_delimiters.component],
              claims |-> claims]>>
    /\ xpc' = "done"
    /\ UNCHANGED <<file_segments, file_delimiters, blocks, metadata, billing_provider,
                   block_index, block_pos, claims>>
    /\ UNCHANGED <<claim, lines, diagnoses, dates_header, dates_line, providers,
                   references, current_line_number, in_header, sbr_data, payer_data>>
    /\ UNCHANGED notClaimVars

ClaimNext ==
    \/ Clm837
    \/ Sbr
    \/ Nm1Payer
    \/ Nm1Provider
    \/ Nm1Billing
    \/ Prv
    \/ DtpHeader
    \/ Hi
    \/ Ref
    \/ Lx
    \/ Sv1
    \/ DtpLine
    \/ SkipClaimSegment
    \/ ReturnClaim
    \/ ReturnFile

-----------------------------------------------------------------------------
(* C14 *)

\* The segment is a subscriber-level HL: its element 3 is '22'.
SubscriberLevel(sg) == sg[1] = <<"H", "L">> /\ Len(sg) >= 4 /\ sg[4] = <<"2", "2">>

\* The positions of the subscriber-level HL segments of the document, in order.
SubscriberPositions ==
    Ascending({i \in 1..Len(file_segments) : SubscriberLevel(file_segments[i])})

\* The last position of the part of the document that the k-th of them opens.
PartEnd(k) ==
    IF k < Len(SubscriberPositions)
    THEN SubscriberPositions[k + 1] - 1
    ELSE Len(file_segments)

\* The claim id a block gives its record: element 1 of its last CLM segment with
\* at least 6 elements.
ClaimIdOf(block) ==
    LET clms == {i \in 1..Len(block) : block[i][1] = CLM /\ Len(block[i]) >= 6}
    IN  IF clms = {} THEN Missing
        ELSE block[CHOOSE i \in clms : \A j \in clms : j <= i][2]

\* C14: get_claim_blocks produces one block per HL segment whose element 3 is
\* '22': the k-th block is the part of the document from the k-th such segment
\* up to but excluding the next one (or the end of the document), so the
\* segments before the first belong to no block; parse_837p_file emits exactly
\* one claim record per block, in block order, and record_count is the number
\* of those HL segments.
C14_OneRecordPerBlock ==
    /\ xpc # Idle =>
          /\ Len(blocks) = Len(SubscriberPositions)
          /\ \A k \in 1..Len(blocks) :
                 blocks[k] = SubSeq(file_segments, SubscriberPositions[k], PartEnd(k))
    /\ xpc = "extract" =>
          /\ Len(claims) = block_index - 1
          /\ \A k \in 1..Len(claims) : claims[k].claim.claim_id = ClaimIdOf(blocks[k])
    /\ xpc = "done" =>
          /\ file_result[1].record_count = Len(SubscriberPositions)
          /\ Len(file_result[1].claims) = Len(blocks)
          /\ \A k \in 1..Len(blocks) :
                 file_result[1].claims[k].claim.claim_id = ClaimIdOf(blocks[k])

\* A document with a segment before its first subscriber-level HL and two claim
\* blocks, the first with a claim, has been parsed into two records.
C14_Witness ==
    /\ xpc = "done"
    /\ file_segments = <<SegHL20, SegHL22, SegClmSecond, SegHL22>>
    /\ blocks = << <<SegHL22, SegClmSecond>>, <<SegHL22>> >>
    /\ file_result[1].record_count = 2
    /\ file_result[1].claims[1].claim.claim_id = <<"B", "2">>
    /\ file_result[1].claims[2].claim.claim_id = Missing

-----------------------------------------------------------------------------
(* C15 *)

\* C15: in every claim record that has at least one diagnosis, the first
\* diagnosis entry is typed 'principal' whatever its qualifier; each later entry
\* has the type its own qualifier maps to in the diagnosis-type table, and
\* 'other' when its qualifier is not in the table.
C15_FirstDiagnosisPrincipal ==
    xpc \in {"extract", "done"} =>
        \A k \in 1..Len(claims) :
            \A i \in 1..Len(claims[k].diagnoses) :
                LET dx == claims[k].diagnoses[i]
                IN  dx.diagnosis_type =
                        IF i = 1 THEN <<"principal">>
                        ELSE IF InMap(DIAGNOSIS_TYPE_MAP, dx.code_qualifier)
                        THEN MapGet(DIAGNOSIS_TYPE_MAP, dx.code_qualifier, <<>>)
                        ELSE <<"other">>

-----------------------------------------------------------------------------
(* C16 *)

\* The SV1 segments with at least 5 elements of a block that follow an LX
\* segment with at least 2 elements, each with the number of the most recent
\* such LX, in source order.
RECURSIVE LinesDue(_, _)
LinesDue(block, cln) ==
    IF block = <<>> THEN <<>>
    ELSE LET sg == Head(block)
         IN  IF sg[1] = LX /\ Len(sg) >= 2 THEN LinesDue(Tail(block), sg[2])
             ELSE IF sg[1] = SV1 /\ Len(sg) >= 5 /\ cln # None
             THEN <<cln>> \o LinesDue(Tail(block), cln)
             ELSE LinesDue(Tail(block), cln)

\* The LX number is numeric: it is written in the digits 0-9.
Numeric(s) == s # <<>> /\ AllDigits(s)

\* C16: in extract_claim an LX segment records its line number, and every
\* following SV1 segment (at least 5 elements) yields one service line whose
\* line_number is the integer value of the most recent LX number when that
\* number is numeric and 1 when it is not (an empty LX number included); no LX
\* value makes the extractor raise or drop the service line.
C16_LineNumbers ==
    /\ xpc # "raised"
    /\ xpc \in {"extract", "done"} =>
           \A k \in 1..Len(claims) :
               LET due == LinesDue(blocks[k], None)
               IN  /\ Len(claims[k].lines) = Len(due)
                   /\ \A i \in 1..Len(due) :
                          claims[k].lines[i].line_number =
                              IF Numeric(due[i]) THEN NumberOf(due[i]) ELSE 1

-----------------------------------------------------------------------------
(* C17 *)

\* The keys of the dict extract_claim returns, and of the parse-quality summary
\* parse_837p_file returns, as the claim understands them.
ClaimDataKeys ==
    {"claim", "lines", "diagnoses", "dates_header", "dates_line", "providers",
     "references"}

SummaryKeys ==
    {"warnings", "unknown_dtp_qualifiers", "unknown_ref_qualifiers",
     "unknown_diagnosis_qualifiers", "invalid_dates", "segment_delimiter",
     "element_delimiter", "component_delimiter"}

\* The returned record says something about the k-th claim's service lines
\* beyond listing them: a key of the claim record or of the summary that is not
\* one of the above, or a warning that is not about a filing indicator.
FlagsLines(k) ==
    LET out == file_result[1]
    IN  \/ DOMAIN out.claims[k] # ClaimDataKeys
        \/ DOMAIN out.claims[k].claim # DOMAIN EmptyClaim
        \/ DOMAIN out.parse_summary # SummaryKeys
        \/ \E i \in 1..Len(out.parse_summary.warnings) :
               out.parse_summary.warnings[i][1] # "Unknown filing indicator: "

\* C17: a claim block without service line still yields a claim record, with an
\* empty service-line list, and the output of parse_837p_file flags that claim:
\* the claim record or the parse-quality summary indicates that the claim has no
\* service line.
C17_ZeroLinesFlagged ==
    xpc = "done" =>
        /\ Len(file_result[1].claims) = Len(blocks)
        /\ \A k \in 1..Len(blocks) :
               LinesDue(blocks[k], None) = <<>> =>
                   /\ file_result[1].claims[k].lines = <<>>
                   /\ FlagsLines(k)

-----------------------------------------------------------------------------
(* C18 *)

\* C18: for every sequence of tokenized segments, extract_payments and
\* extract_claim return their result without raising: at no step has either
\* of them raised.
C18_NeverRaises == ppc # "raised" /\ xpc # "raised"

-----------------------------------------------------------------------------
(* parse_folder of parse_835.py and of parse_837p.py *)

\* str.endswith
EndsWith(s, suffix) ==
    Len(s) >= Len(suffix) /\ SubSeq(s, Len(s) - Len(suffix) + 1, Len(s)) = suffix

\* The extensions parse_folder accepts, of parse_835 ("835") and of parse_837p
\* ("837P").
AcceptedExtensions(type) ==
    { <<".", "T", "X", "T">>, <<".", "E", "D", "I">>, <<".", "X", "1", "2">>,
      IF type = "835" THEN <<".", "8", "3", "5">> ELSE <<".", "8", "3", "7">> }

\* fname.upper().endswith((...))
Accepted(type, fname) == \E ext \in AcceptedExtensions(type) : EndsWith(Upper(fname), ext)

\* A byte of a file name that is no UTF-8, as os.listdir returns it: a lone
\* surrogate.
Surrogate == "<udcff>"

\* print(text) returns: sys.stdout encodes the text, a lone surrogate only when
\* its error handler is not 'strict'.
Prints(text) == stdout_errors # "strict" \/ Surrogate \notin Range(text)

\* str(e) of the UnicodeEncodeError print raises
EncodeError == <<"'utf-8' codec can't encode character: surrogates not allowed">>

\* The names of the entries of the folder
FileNames ==
    { <<"a", ".", "e", "d", "i">>, <<"b", ".", "T", "X", "T">>,
      <<"c", ".", "8", "3", "5">>, <<"d", ".", "8", "3", "7">>,
      <<"e", ".", "m", "d">>, <<"f", Surrogate, ".", "x", "1", "2">> }

\* What parse_835_file / parse_837p_file does on an entry: it returns a record
\* (here with one payment or claim) or raises an exception e, with str(e) as
\* below (the IndexError of extract_payments, the ValueError of int).
ParseOutcomes ==
    { [raises |-> FALSE, error |-> Missing, record_count |-> 1],
      [raises |-> TRUE, error |-> <<"list index out of range">>, record_count |-> 0],
      [raises |-> TRUE, error |-> <<"invalid literal for int() with base 10">>,
       record_count |-> 0] }

MaxFiles == 2

\* The listings of at most n entries with different names.
RECURSIVE Listings(_)
Listings(n) ==
    IF n = 0 THEN {<<>>}
    ELSE Listings(n - 1)
         \cup {Append(l, [fname |-> f, parse |-> o]) :
                  l \in {x \in Listings(n - 1) : Len(x) = n - 1},
                  f \in FileNames, o \in ParseOutcomes}

DistinctNames(l) == \A i, j \in 1..Len(l) : i # j => l[i].fname # l[j].fname

FolderInit ==
    /\ folder_type \in {"835", "837P"}
    /\ listing \in {l \in Listings(MaxFiles) : DistinctNames(l)}
    /\ stdout_errors \in {"strict", "surrogateescape"}
    /\ folder_index = 1
    /\ results = <<>>
    /\ pending_error = <<>>
    /\ fpc = "loop"

\* for fname in os.listdir(folder_path)
CurFile == listing[folder_index]

AtFile == fpc = "loop" /\ folder_index <= Len(listing)

\* The record parse_835_file / parse_837p_file returns, as far as parse_folder
\* reads it; records stands for the key 'payments' or 'claims'.
ParsedRecord(f) ==
    [file_name |-> f.fname, file_type |-> folder_type, error |-> Missing,
     record_count |-> f.parse.record_count]

\* The record parse_folder makes of an exception.
ErrorRecord(f, e) ==
    [file_name |-> f.fname, file_type |-> folder_type, error |-> e,
     record_count |-> Missing, records |-> <<>>]

\* The extension is not an accepted one: next entry.
SkipFile ==
    /\ AtFile
    /\ ~Accepted(folder_type, CurFile.fname)
    /\ folder_index' = folder_index + 1
    /\ UNCHANGED <<folder_type, listing, stdout_errors, results, pending_error, fpc>>
    /\ UNCHANGED <<earlierVars, splitVars, ediVars, claimVars, twiceVars, loadVars, stepVars>>

\* The try body when the parse returns: the result is appended, then printed.
ParseFile ==
    /\ AtFile
    /\ Accepted(folder_type, CurFile.fname)
    /\ ~CurFile.parse.raises
    /\ results' = Append(results, ParsedRecord(CurFile))
    /\ IF Prints(<<"Parsed ">> \o CurFile.fname)
       THEN /\ folder_index' = folder_index + 1
            /\ UNCHANGED <<pending_error, fpc>>
       ELSE /\ pending_error' = <<EncodeError>>
            /\ fpc' = "except"
            /\ UNCHANGED folder_index
    /\ UNCHANGED <<folder_type, listing, stdout_errors>>
    /\ UNCHANGED <<earlierVars, splitVars, ediVars, claimVars, twiceVars, loadVars, stepVars>>

\* The try body when the parse raises.
ParseFileRaises ==
    /\ AtFile
    /\ Accepted(folder_type, CurFile.fname)
    /\ CurFile.parse.raises
    /\ pending_error' = <<CurFile.parse.error>>
    /\ fpc' = "except"
    /\ UNCHANGED <<folder_type, listing, stdout_errors, folder_index, results>>
    /\ UNCHANGED <<earlierVars, splitVars, ediVars, claimVars, twiceVars, loadVars, stepVars>>

\* except Exception as e: the error is printed, then its record appended; an
\* exception of print leaves parse_folder.
Except ==
    /\ fpc = "except"
    /\ IF Prints(<<"Error parsing ">> \o CurFile.fname \o <<": ">> \o pending_error[1])
       THEN /\ results' = Append(results, ErrorRecord(CurFile, pending_error[1]))
            /\ folder_index' = folder_index + 1
            /\ pending_error' = <<>>
            /\ fpc' = "loop"
       ELSE /\ fpc' = "aborted"
            /\ UNCHANGED <<folder_index, results, pending_error>>
    /\ UNCHANGED <<folder_type, listing, stdout_errors>>
    /\ UNCHANGED <<earlierVars, splitVars, ediVars, claimVars, twiceVars, loadVars, stepVars>>

\* return results
ReturnFolder ==
    /\ fpc = "loop"
    /\ folder_index > Len(listing)
    /\ fpc' = "done"
    /\ UNCHANGED <<folder_type, listing, stdout_errors, folder_index, results,
                   pending_error>>
    /\ UNCHANGED <<earlierVars, splitVars, ediVars, claimVars, twiceVars, loadVars, stepVars>>

FolderNext ==
    \/ SkipFile
    \/ ParseFile
    \/ ParseFileRaises
    \/ Except
    \/ ReturnFolder

-----------------------------------------------------------------------------
(* C19 *)

\* The entries of the listing with an accepted extension, in order.
AcceptedFiles == SelectSeq(listing, LAMBDA f : Accepted(folder_type, f.fname))

\* C19: parse_folder always completes and returns exactly one outcome per input
\* file with an accepted extension: a file whose parse raises is reported as a
\* record with its file name, an 'error' message and an empty record list, and
\* it neither aborts the batch nor prevents the files after it from being
\* parsed and reported.
C19_OneOutcomePerFile ==
    /\ fpc # "aborted"
    /\ fpc = "done" =>
          /\ Len(results) = Len(AcceptedFiles)
          /\ \A i \in 1..Len(results) :
                 results[i] =
                     IF AcceptedFiles[i].parse.raises
                     THEN ErrorRecord(AcceptedFiles[i], AcceptedFiles[i].parse.error)
                     ELSE ParsedRecord(AcceptedFiles[i])

-----------------------------------------------------------------------------
(* Two decodings of the same segments *)
(* The same segments are decoded a second time, by extract_payments or by the  *)
(* loop of parse_837p_file over extract_claim with build_parse_summary, under  *)
(* a hash seed of its own; first_run keeps what the first decoding returned.   *)

HashSeeds == {"seed0", "seed1"}

\* CLP*P4*98*50*0 (another unknown status), CAS*YY*777*1*1 (other unknown codes)
SegClp3 == <<CLP, <<"P", "4">>, <<"9", "8">>, <<"5", "0">>, <<"0">> >>
SegCas3 == <<CAS, <<"Y", "Y">>, <<"7", "7", "7">>, <<"1">>, <<"1">> >>

MaxTwiceDoc == 3

\* The tokenized 835 documents of at most n segments.
TwicePayDocuments(n) ==
    UNION {StringsUpTo(g, n) :
              g \in SegmentGroups \cup {{SegClp2, SegClp3, SegCas2, SegCas3, SegSvc1}}}

TwiceInit ==
    /\ hash_seed \in HashSeeds
    /\ run_no = 1
    /\ first_run = <<>>
    /\ \/ /\ segments \in TwicePayDocuments(MaxTwiceDoc)
          /\ component_separator = ":"
          /\ seg_index = 0
          /\ payments = <<>>
          /\ current_payment = <<>>
          /\ current_svc = <<>>
          /\ payer_info = EmptyPayerInfo
          /\ check_info = EmptyCheckInfo
          /\ summary = EmptySummary
          /\ parse_summary = <<>>
          /\ ppc = "loop"
          /\ file_segments = Idle /\ file_delimiters = Idle /\ blocks = Idle
          /\ metadata = Idle /\ billing_provider = Idle
          /\ block_index = Idle /\ block_pos = Idle
          /\ claim = Idle /\ lines = Idle /\ diagnoses = Idle
          /\ dates_header = Idle /\ dates_line = Idle /\ providers = Idle
          /\ references = Idle /\ current_line_number = Idle /\ in_header = Idle
          /\ sbr_data = Idle /\ payer_data = Idle
          /\ claims = Idle /\ file_result = Idle /\ xpc = Idle
       \/ /\ file_segments \in ClaimDocuments(MaxTwiceDoc)
          /\ file_delimiters = DefaultDelimiters
          /\ blocks = get_claim_blocks(file_segments)
          /\ metadata = extract_file_metadata(file_segments)[1]
          /\ billing_provider = extract_file_metadata(file_segments)[2]
          /\ block_index = 1
          /\ block_pos = 1
          /\ claim = EmptyClaim
          /\ lines = <<>>
          /\ diagnoses = <<>>
          /\ dates_header = <<>>
          /\ dates_line = <<>>
          /\ providers = <<>>
          /\ references = <<>>
          /\ current_line_number = None
          /\ in_header = TRUE
          /\ sbr_data = EmptySbrData
          /\ payer_data = EmptyPayerData
          /\ claims = <<>>
          /\ file_result = <<>>
          /\ xpc = "extract"
          /\ segments = Idle /\ component_separator = Idle
          /\ seg_index = Idle
          /\ payments = Idle /\ current_payment = Idle /\ current_svc = Idle
          /\ payer_info = Idle /\ check_info = Idle /\ summary = Idle
          /\ parse_summary = Idle /\ ppc = Idle

\* What a decoding has returned: how it ended, its records and its summary.
PayOutcome ==
    [outcome |-> ppc,
     records |-> IF ppc = "done" THEN payments ELSE <<>>,
     summary_of_run |-> IF ppc = "done" THEN <<parse_summary>> ELSE <<>>]

ClaimOutcome ==
    [outcome |-> xpc,
     records |-> IF xpc = "done" THEN file_result[1].claims ELSE <<>>,
     summary_of_run |-> IF xpc = "done" THEN <<file_result[1].parse_summary>> ELSE <<>>]

\* extract_payments is called again with the same arguments.
PaymentsAgain ==
    /\ run_no = 1
    /\ ppc \in {"done", "raised"}
    /\ first_run' = <<PayOutcome, hash_seed>>
    /\ run_no' = 2
    /\ hash_seed' \in HashSeeds
    /\ seg_index' = 0
    /\ payments' = <<>>
    /\ current_payment' = <<>>
    /\ current_svc' = <<>>
    /\ payer_info' = EmptyPayerInfo
    /\ check_info' = EmptyCheckInfo
    /\ summary' = EmptySummary
    /\ parse_summary' = <<>>
    /\ ppc' = "loop"
    /\ UNCHANGED <<segments, component_separator>>
    /\ UNCHANGED <<keysVars, matchVars, casVars, delimVars, splitVars, ediVars,
                   claimVars, folderVars, loadVars, stepVars>>

\* The blocks of the same segments are extracted and summarised again.
ClaimsAgain ==
    /\ run_no = 1
    /\ xpc \in {"done", "raised"}
    /\ first_run' = <<ClaimOutcome, hash_seed>>
    /\ run_no' = 2
    /\ hash_seed' \in HashSeeds
    /\ blocks' = get_claim_blocks(file_segments)
    /\ metadata' = extract_file_metadata(file_segments)[1]
    /\ billing_provider' = extract_file_metadata(file_segments)[2]
    /\ block_index' = 1
    /\ block_pos' = 1
    /\ FreshLocals
    /\ claims' = <<>>
    /\ file_result' = <<>>
    /\ xpc' = "extract"
    /\ UNCHANGED <<file_segments, file_delimiters>>
    /\ UNCHANGED <<earlierVars, splitVars, ediVars, folderVars, loadVars, stepVars>>

TwiceNext ==
    \/ Isa835 \/ N1Payer \/ N1Payee \/ Bpr \/ Trn \/ DtmHeader \/ Clp
    \/ CasClaim \/ Svc \/ CasLine \/ DtmClaim \/ Nm1Patient \/ SkipSegment
    \/ Return
    \/ PaymentsAgain
    \/ Clm837 \/ Sbr \/ Nm1Payer \/ Nm1Provider \/ Nm1Billing \/ Prv
    \/ DtpHeader \/ Hi \/ Ref \/ Lx \/ Sv1 \/ DtpLine \/ SkipClaimSegment
    \/ ReturnClaim \/ ReturnFile
    \/ ClaimsAgain

-----------------------------------------------------------------------------
(* C20 *)

\* The unknown-code lists of a parse-quality summary of extract_payments and of
\* build_parse_summary.
PayLists(ps) ==
    {ps.unknown_adjustment_groups, ps.unknown_carc_codes, ps.unknown_clp_status_codes}

ClaimLists(ps) ==
    {ps.unknown_dtp_qualifiers, ps.unknown_ref_qualifiers,
     ps.unknown_diagnosis_qualifiers}

\* ascending without a duplicate
StrictlyAscending(l) == \A i \in 1..(Len(l) - 1) : StrLess(l[i], l[i + 1])

\* C20: decoding the same segments twice, each time under any hash seed,
\* returns equal records and equal parse-quality summaries (every count and
\* every list in them equal), and every unknown-code list of a summary is in
\* ascending order and free of duplicates.
C20_SameTwice ==
    /\ ppc = "done" => \A l \in PayLists(parse_summary) : StrictlyAscending(l)
    /\ xpc = "done" =>
           \A l \in ClaimLists(file_result[1].parse_summary) : StrictlyAscending(l)
    /\ run_no = 2 /\ ppc \in {"done", "raised"} => PayOutcome = first_run[1]
    /\ run_no = 2 /\ xpc \in {"done", "raised"} => ClaimOutcome = first_run[1]

\* A second decoding, under another hash seed than the first, has returned
\* payments and a summary that lists two unknown claim status codes.
C20_Witness ==
    /\ run_no = 2
    /\ ppc = "done"
    /\ hash_seed # first_run[2]
    /\ payments # <<>>
    /\ Len(parse_summary.unknown_clp_status_codes) >= 2

-----------------------------------------------------------------------------
(* C21 *)

\* The positions of the CLP segments with at least 5 elements, and of the CAS
\* segments with at least 4 elements that follow one of them.
AcceptedClp == {i \in 1..Len(segments) : segments[i][1] = CLP /\ Len(segments[i]) >= 5}

DecodedCas ==
    {i \in 1..Len(segments) :
        /\ segments[i][1] = CAS
        /\ Len(segments[i]) >= 4
        /\ \E j \in AcceptedClp : j < i}

\* The adjustment entries of the returned payments, claim level and line level.
EmittedAdjustments ==
    UNION {Range(payments[k].adjustments)
           \cup UNION {Range(payments[k].service_lines[n].adjustments) :
                          n \in 1..Len(payments[k].service_lines)} :
           k \in 1..Len(payments)}

\* C21: when extract_payments has returned, unknown_adjustment_groups holds
\* exactly the non-empty group codes of the decoded CAS segments that the group
\* table lacks, unknown_carc_codes exactly the reason codes of the emitted
\* adjustment entries that the reason table lacks, unknown_clp_status_codes
\* exactly the non-empty status codes of the accepted CLP segments that the
\* status table lacks; and the entries with such codes are emitted: a payment
\* for every accepted CLP with its status code, and an entry for the first
\* reason code of every decoded CAS with its group and reason code.
C21_UnknownCodesRecorded ==
    ppc = "done" =>
        /\ Range(parse_summary.unknown_adjustment_groups)
               = {segments[i][2] : i \in DecodedCas}
                     \ ({<<>>} \cup ADJUSTMENT_GROUP_MAP_KEYS)
        /\ Range(parse_summary.unknown_carc_codes)
               = {a.carc_code : a \in EmittedAdjustments} \ CARC_MAP_KEYS
        /\ Range(parse_summary.unknown_clp_status_codes)
               = {segments[i][3] : i \in AcceptedClp}
                     \ ({<<>>} \cup CLP_STATUS_MAP_KEYS)
        /\ Len(payments) = Cardinality(AcceptedClp)
        /\ \A k \in 1..Len(payments) :
               payments[k].payment.claim_status_code
                   = segments[Ascending(AcceptedClp)[k]][3]
        /\ \A i \in DecodedCas :
               segments[i][3] # <<>> =>
                   \E a \in EmittedAdjustments :
                       /\ a.adjustment_group_code = segments[i][2]
                       /\ a.carc_code = segments[i][3]

\* A document with a CLP of unknown status and a CAS of unknown group and
\* reason code has been decoded: the three lists name the codes, the payment
\* and the adjustment entry are in the output.
C21_Witness ==
    /\ ppc = "done"
    /\ parse_summary.unknown_adjustment_groups = << <<"Z", "Z">> >>
    /\ parse_summary.unknown_carc_codes = << <<"9", "9", "9">> >>
    /\ parse_summary.unknown_clp_status_codes = << <<"9", "9">> >>
    /\ Len(payments) = 1
    /\ payments[1].payment.claim_status_code = <<"9", "9">>
    /\ payments[1].payment.claim_status_desc = <<>>
    /\ Len(payments[1].adjustments) = 1
    /\ payments[1].adjustments[1].adjustment_group_desc = <<"Unknown">>
    /\ payments[1].adjustments[1].carc_code = <<"9", "9", "9">>

-----------------------------------------------------------------------------
(* C24 *)

\* A step of extract_claim's loop inside one block.
SegmentStep == block_index' = block_index /\ block_pos' = block_pos + 1

\* C24: within one claim block the header-context flag is true at the start
\* of the block, becomes false at the first LX segment with at least 2
\* elements, at no other segment, and never becomes true again in the block,
\* not at a later CLM segment either; once it is false no entry is added to
\* the header-date list, the diagnosis list or the reference list.
C24_HeaderFlag ==
    /\ block_pos = 1 => in_header
    /\ [][/\ block_pos' = 1 => in_header'
          /\ SegmentStep /\ ~in_header =>
                 /\ ~in_header'
                 /\ dates_header' = dates_header
                 /\ diagnoses' = diagnoses
                 /\ references' = references
          /\ SegmentStep /\ in_header =>
                 (~in_header' <=> CurClaimSeg[1] = LX /\ Len(CurClaimSeg) >= 2)]_vars

\* A block HL, LX, CLM, DTP has been read to its end: the CLM after the LX
\* set the claim id, the flag is false and the DTP after it is a line date.
C24_Witness ==
    /\ xpc = "extract"
    /\ blocks = <<<<SegHL22, SegLx1, SegClm, SegDtpOnset>>>>
    /\ block_index = 1
    /\ block_pos = 5
    /\ ~in_header
    /\ claim.claim_id = <<"A", "1">>
    /\ dates_header = <<>>
    /\ Len(dates_line) = 1

-----------------------------------------------------------------------------
(* C25 *)

\* The elements with at least two components, each as its components, in
\* element order.
RECURSIVE ElementsDue(_, _)
ElementsDue(elements, sep) ==
    IF elements = <<>> THEN <<>>
    ELSE LET composite_parts == split_composite(Head(elements), sep)
         IN  (IF Len(composite_parts) >= 2 THEN <<composite_parts>> ELSE <<>>)
             \o ElementsDue(Tail(elements), sep)

\* The diagnosis elements of the HI segments of a block that precede its
\* first LX segment with at least 2 elements, in source order.
RECURSIVE DiagnosesDue(_, _)
DiagnosesDue(block, sep) ==
    IF block = <<>> THEN <<>>
    ELSE LET sg == Head(block)
         IN  IF sg[1] = LX /\ Len(sg) >= 2 THEN <<>>
             ELSE IF sg[1] = HI
             THEN ElementsDue(Tail(sg), sep) \o DiagnosesDue(Tail(block), sep)
             ELSE DiagnosesDue(Tail(block), sep)

\* The SV1 segments of a block that yield a service line (at least 5
\* elements, after an LX segment with a non-empty number), in source order.
RECURSIVE Sv1Due(_, _)
Sv1Due(block, cln) ==
    IF block = <<>> THEN <<>>
    ELSE LET sg == Head(block)
         IN  IF sg[1] = LX /\ Len(sg) >= 2 THEN Sv1Due(Tail(block), sg[2])
             ELSE IF sg[1] = SV1 /\ Len(sg) >= 5 /\ Truthy(cln)
             THEN <<sg>> \o Sv1Due(Tail(block), cln)
             ELSE Sv1Due(Tail(block), cln)

\* C25: in every claim record the diagnosis entries are the diagnosis elements
\* of the block in source order (HI segment order, then element order), the
\* k-th entry has sequence_number k (an element of fewer than two components
\* yields no entry and takes no number), and the service lines are those of
\* the SV1 segments in source order, whatever their line numbers.
C25_SourceOrder ==
    xpc \in {"extract", "done"} =>
        \A k \in 1..Len(claims) :
            LET dx  == claims[k].diagnoses
                due == DiagnosesDue(blocks[k], ComponentSep)
                ln  == claims[k].lines
                sv  == Sv1Due(blocks[k], None)
            IN  /\ Len(dx) = Len(due)
                /\ \A i \in 1..Len(dx) :
                       /\ dx[i].sequence_number = i
                       /\ dx[i].code_qualifier = due[i][1]
                       /\ dx[i].diagnosis_code = due[i][2]
                /\ Len(ln) = Len(sv)
                /\ \A i \in 1..Len(ln) :
                       /\ ln[i].charge_amount = sv[i][3]
                       /\ ln[i].unit_count = sv[i][5]

\* A claim record of two HI segments, one of them with an element of one
\* component, and of two service lines whose line numbers descend: four
\* diagnoses numbered 1 to 4, the lines in the order of their SV1 segments.
C25_Witness ==
    /\ xpc = "done"
    /\ Len(claims) = 1
    /\ Len(claims[1].diagnoses) = 4
    /\ claims[1].diagnoses[3].code_qualifier = <<"Z", "Z">>
    /\ claims[1].diagnoses[4].sequence_number = 4
    /\ Len(claims[1].lines) = 2
    /\ claims[1].lines[1].line_number = 7
    /\ claims[1].lines[2].line_number = 1
    /\ claims[1].lines[2].charge_amount = <<"7", "5">>

-----------------------------------------------------------------------------
(* C26 *)

\* The DTP segments with at least 4 elements of a block that precede its first
\* LX segment with at least 2 elements, in source order.
RECURSIVE HeaderDtpDue(_)
HeaderDtpDue(block) ==
    IF block = <<>> THEN <<>>
    ELSE LET sg == Head(block)
         IN  IF sg[1] = LX /\ Len(sg) >= 2 THEN <<>>
             ELSE IF sg[1] = DTP /\ Len(sg) >= 4
             THEN <<sg>> \o HeaderDtpDue(Tail(block))
             ELSE HeaderDtpDue(Tail(block))

\* The DTP segments with at least 4 elements of a block that follow an LX
\* segment with a non-empty number, each with the number of the most recent
\* LX segment before it, in source order; lx is <<>> before the first LX and
\* holds the number of the most recent LX after it.
RECURSIVE LineDtpDue(_, _)
LineDtpDue(block, lx) ==
    IF block = <<>> THEN <<>>
    ELSE LET sg == Head(block)
         IN  IF sg[1] = LX /\ Len(sg) >= 2 THEN LineDtpDue(Tail(block), <<sg[2]>>)
             ELSE IF sg[1] = DTP /\ Len(sg) >= 4 /\ lx # <<>> /\ lx # << <<>> >>
             THEN << <<lx[1], sg>> >> \o LineDtpDue(Tail(block), lx)
             ELSE LineDtpDue(Tail(block), lx)

\* C26: in every claim record the header dates are the DTP segments (at least
\* 4 elements) that precede the first LX of the block, in source order, and
\* the line dates are DTP segments that follow it, in source order, each
\* tagged with the line number of the most recent LX before it; no DTP
\* segment is in both lists or twice in one.
C26_DateRouting ==
    xpc \in {"extract", "done"} =>
        \A k \in 1..Len(claims) :
            LET dh  == claims[k].dates_header
                dl  == claims[k].dates_line
                hd  == HeaderDtpDue(blocks[k])
                ld  == LineDtpDue(blocks[k], <<>>)
            IN  /\ Len(dh) = Len(hd)
                /\ \A i \in 1..Len(dh) :
                       /\ dh[i].date_qualifier = hd[i][2]
                       /\ dh[i].date_value = hd[i][4]
                /\ Len(dl) = Len(ld)
                /\ \A i \in 1..Len(dl) :
                       /\ dl[i].date_qualifier = ld[i][2][2]
                       /\ dl[i].date_value = ld[i][2][4]
                       /\ dl[i].line_number =
                              IF Numeric(ld[i][1]) THEN NumberOf(ld[i][1]) ELSE 1

\* A claim record of a block DTP, LX*007, DTP, LX*1, DTP: the first date is a
\* header date, the second a date of line 7, the third a date of line 1.
C26_Witness ==
    /\ xpc = "done"
    /\ Len(claims) = 1
    /\ blocks[1] = <<SegHL22, SegDtpOnset, SegLx007, SegDtpRange, SegLx1, SegDtpBad>>
    /\ Len(claims[1].dates_header) = 1
    /\ claims[1].dates_header[1].date_qualifier = <<"4", "3", "1">>
    /\ Len(claims[1].dates_line) = 2
    /\ claims[1].dates_line[1].line_number = 7
    /\ claims[1].dates_line[1].date_qualifier = <<"4", "7", "2">>
    /\ claims[1].dates_line[2].line_number = 1
    /\ claims[1].dates_line[2].date_qualifier = <<"9", "9", "9">>

-----------------------------------------------------------------------------
(* C27 *)

\* The provider entry has no taxonomy code: the key is absent or its value is
\* empty.
LacksTaxonomy(prov) == prov.taxonomy_code \in {Missing, None, <<>>}

\* The loop steps over a PRV segment with at least 4 elements in header
\* context.
PrvStep ==
    /\ xpc = "extract"
    /\ SegmentStep
    /\ CurClaimSeg[1] = PRV
    /\ Len(CurClaimSeg) >= 4
    /\ in_header

\* C27: a PRV segment (at least 4 elements) in header context sets the
\* taxonomy code of the first provider entry, in list order, that has none,
\* and leaves every other provider entry and every other field of that entry
\* as they were; with no provider, or none without a taxonomy code, it
\* changes nothing.  It changes no other part of the claim.
C27_FirstFit ==
    [][PrvStep =>
          LET lacking == {i \in 1..Len(providers) : LacksTaxonomy(providers[i])}
          IN  /\ UNCHANGED <<claim, lines, diagnoses, dates_header, dates_line,
                             references, current_line_number, in_header, sbr_data,
                             payer_data, claims>>
              /\ IF lacking = {} THEN providers' = providers
                 ELSE LET first == CHOOSE i \in lacking : \A j \in lacking : i <= j
                      IN  /\ Len(providers') = Len(providers)
                          /\ providers'[first] =
                                 [providers[first] EXCEPT
                                     !.taxonomy_code = CurClaimSeg[4]]
                          /\ \A i \in 1..Len(providers) :
                                 i # first => providers'[i] = providers[i]]_vars

\* Two providers without a taxonomy code were followed by one PRV segment:
\* the first has its code, the second has none.
C27_Witness ==
    /\ xpc = "extract"
    /\ block_pos > 1
    /\ blocks[block_index][block_pos - 1] = SegPrv
    /\ Len(providers) = 2
    /\ providers[1].taxonomy_code = <<"2", "0", "7", "Q">>
    /\ providers[2].taxonomy_code = Missing
    /\ providers[1].provider_role # providers[2].provider_role

-----------------------------------------------------------------------------
(* C28 *)

\* The block carries a billing provider of its own: an NM1 segment with
\* entity code 85.
OwnBillingProvider(block) ==
    \E i \in 1..Len(block) :
        /\ block[i][1] = NM1
        /\ Len(block[i]) >= 2
        /\ block[i][2] = E85

\* extract_claim returns and parse_837p_file appends the record.
RecordStep == xpc = "extract" /\ block_index' = block_index + 1

\* C28: with a file-level billing provider, parse_837p_file adds it to the
\* providers of a claim exactly when the block of the claim carries no billing
\* provider of its own, and the merge leaves the providers that extract_claim
\* returned as they were.
C28_BillingMerge ==
    [][RecordStep /\ billing_provider # <<>> =>
          claims'[Len(claims')].providers =
              IF OwnBillingProvider(blocks[block_index]) THEN providers
              ELSE billing_provider \o providers]_vars

-----------------------------------------------------------------------------
(* C29 *)

\* Element e of the last of the segments 1..n that has identifier id, at
\* least len elements and, for N1, the entity code PR; '' when there is none
\* or the segment is too short for e.
LastBefore(n, id, len, e) ==
    LET found == {i \in 1..n : /\ segments[i][1] = id
                               /\ Len(segments[i]) >= len
                               /\ id = N1 => segments[i][2] = PR}
        last  == CHOOSE i \in found : \A j \in found : j <= i
    IN  IF found = {} THEN <<>>
        ELSE IF Len(segments[last]) > e THEN segments[last][e + 1]
        ELSE <<>>

\* C29: the payer name, payer id, check number and payment method code of
\* every payment record, emitted or open, are those of the last N1*PR, TRN and
\* BPR segments before its CLP segment ('' where there is none), whatever
\* N1*PR, TRN and BPR segments have been read after that CLP.
C29_HeaderValuesAtClp ==
    Running =>
        \A k \in 1..Len(ClaimPositions) :
            LET n == ClaimPositions[k] - 1
                r == RecordOf(k).payment
            IN  /\ r.payer_name = LastBefore(n, N1, 4, 2)
                /\ r.payer_id = LastBefore(n, N1, 5, 4)
                /\ r.check_number = LastBefore(n, TRN, 3, 2)
                /\ r.payment_method_code = LastBefore(n, BPR, 2, 4)

\* The document N1*PR, CLP, TRN, CLP has been decoded: both payments carry
\* the payer name, the second alone the check number.
C29_Witness ==
    /\ ppc = "done"
    /\ segments = <<SegPayerA, SegClp1, SegTRN, SegClp1>>
    /\ Len(payments) = 2
    /\ payments[1].payment.payer_name = <<"A", "c", "m", "e">>
    /\ payments[1].payment.check_number = <<>>
    /\ payments[2].payment.check_number = <<"C", "K", "9">>

-----------------------------------------------------------------------------
(* C33 *)

\* The service line was opened by the SVC segment sg: what line 300 builds from
\* it, whatever adjustments it has received since.
LineOpenedBy(line, sg) ==
    [line EXCEPT !.adjustments = <<>>] = NewServiceLine(sg, component_separator)

\* C33: while extract_payments runs, an open service line is the last entry of
\* the open payment's service_lines, and after a CLP segment with at least 5
\* elements no line is open until the next SVC is accepted; the service lines
\* of every record are the ones opened by the SVC segments (at least 4
\* elements) read between the record's CLP and the next such CLP, in source
\* order, and before the first such CLP there is no record and no open line.
C33_LinesUnderOpenPayment ==
    Running =>
        /\ current_svc # <<>> =>
              /\ current_payment # <<>>
              /\ Len(current_payment[1].service_lines) >= 1
              /\ current_svc[1] = Len(current_payment[1].service_lines)
        /\ ClaimPositions = <<>> =>
              payments = <<>> /\ current_payment = <<>> /\ current_svc = <<>>
        /\ ClaimPositions # <<>> =>
              (current_svc = <<>>) =
                  (Positions(SVC, ClaimPositions[Len(ClaimPositions)] + 1, seg_index)
                       = <<>>)
        /\ \A k \in 1..Len(ClaimPositions) :
               LET svcs == Positions(SVC, ClaimPositions[k] + 1, ClaimEnd(k))
                   r    == RecordOf(k)
               IN  /\ Len(r.service_lines) = Len(svcs)
                   /\ \A j \in 1..Len(svcs) :
                          LineOpenedBy(r.service_lines[j], segments[svcs[j]])

\* The document SVC, CLP, SVC, CLP has been read to its end: the first SVC was
\* dropped, the second is the one line of the first payment, and the second
\* CLP left no line open.
C33_Witness ==
    /\ ppc = "loop"
    /\ segments = <<SegSvc1, SegClp1, SegSvc1, SegClp2>>
    /\ seg_index = 4
    /\ Len(payments) = 1
    /\ Len(payments[1].service_lines) = 1
    /\ current_payment # <<>>
    /\ current_payment[1].service_lines = <<>>
    /\ current_svc = <<>>

-----------------------------------------------------------------------------
(* C34 *)

\* The reason-code positions of a CAS segment from idx on: each is 3 after the
\* one before it when a quantity follows the amount, and 2 after it when the
\* segment ends there or the element in the quantity's place is a recognized
\* group code.
RECURSIVE ReasonCodePositions(_, _)
ReasonCodePositions(sg, idx) ==
    IF ~(idx < Len(sg)) THEN <<>>
    ELSE <<idx>> \o
         ReasonCodePositions(
             sg,
             IF idx + 2 < Len(sg)
                /\ safe_get(sg, idx + 2, <<>>) \notin ADJUSTMENT_GROUP_MAP_KEYS
             THEN idx + 3 ELSE idx + 2)

\* The places, among the reason-code positions after index 2, that hold a
\* recognized group code or an empty value.
StopPlaces(sg) ==
    {k \in 1..Len(ReasonCodePositions(sg, 2)) :
        /\ ReasonCodePositions(sg, 2)[k] # 2
        /\ \/ safe_get(sg, ReasonCodePositions(sg, 2)[k], <<>>) = <<>>
           \/ safe_get(sg, ReasonCodePositions(sg, 2)[k], <<>>)
                  \in ADJUSTMENT_GROUP_MAP_KEYS}

\* C34: every entry parse_cas_adjustments returns for a segment carries the
\* segment's element 1 as adjustment_group_code and the value of one
\* reason-code position as carc_code, position by position from index 2 on;
\* no entry comes from the first reason-code position after index 2 that holds
\* a recognized group code or an empty value, nor from a later one, and
\* every position before it has its entry when index 2 holds a value.
C34_GroupCodeAndStop ==
    cpc = "done" =>
        LET ps == ReasonCodePositions(seg, 2)
        IN  /\ \A i \in 1..Len(adjustments) :
                  /\ adjustments[i].adjustment_group_code = safe_get(seg, 1, <<>>)
                  /\ i <= Len(ps)
                  /\ adjustments[i].carc_code = safe_get(seg, ps[i], <<>>)
            /\ \A k \in StopPlaces(seg) : Len(adjustments) < k
            /\ (Len(seg) >= 4 /\ safe_get(seg, 2, <<>>) # <<>>) =>
                  \/ Len(adjustments) = Len(ps) /\ StopPlaces(seg) = {}
                  \/ Len(adjustments) + 1 \in StopPlaces(seg)

\* A segment whose index 2 holds a recognized group code, decoded there as a
\* reason code, and whose next reason-code position, index 5, holds one too,
\* with an element after it: one entry under the group code of element 1.
C34_Witness ==
    /\ cpc = "done"
    /\ Len(seg) = 7
    /\ seg[3] \in ADJUSTMENT_GROUP_MAP_KEYS
    /\ ReasonCodePositions(seg, 2) = <<2, 5>>
    /\ seg[6] \in ADJUSTMENT_GROUP_MAP_KEYS
    /\ seg[2] \notin ADJUSTMENT_GROUP_MAP_KEYS
    /\ Len(adjustments) = 1
    /\ adjustments[1].adjustment_group_code = seg[2]
    /\ adjustments[1].carc_code = seg[3]

-----------------------------------------------------------------------------
(* C35 *)

\* ceil((n - 2) / 2) for n >= 2
HalfUp(n) == (n - 1) \div 2

\* C35: every call of parse_cas_adjustments returns; an iteration of its loop
\* that does not end it moves idx forward by 2 or by 3 and appends one entry,
\* and idx never moves backwards; a segment of n elements yields at most
\* ceil((n - 2) / 2) entries, one of fewer than 4 elements none, and what is
\* returned is what parse_cas_adjustments is taken to return elsewhere.
C35_CasTerminates ==
    /\ <>(cpc = "done")
    /\ [][/\ cas_idx' >= cas_idx
          /\ (cpc = "while" /\ cpc' = "while") =>
                /\ cas_idx' \in {cas_idx + 2, cas_idx + 3}
                /\ Len(adjustments') = Len(adjustments) + 1
          /\ cpc' = "done" => adjustments' = adjustments]_vars
    /\ [](cpc = "done" =>
            /\ Len(seg) < 4 => adjustments = <<>>
            /\ Len(seg) >= 4 => Len(adjustments) <= HalfUp(Len(seg))
            /\ adjustments = parse_cas_adjustments(seg).adjustments
            /\ cas_summary.unknown_carc_codes
                   = parse_cas_adjustments(seg).unknown_carc_codes)

\* A segment of 7 elements has been decoded to its end in two iterations, the
\* first moving idx by 3 and the second by 2.
C35_Witness ==
    /\ cpc = "done"
    /\ Len(seg) = 7
    /\ cas_idx = 7
    /\ Len(adjustments) = 2
    /\ adjustments[1].adjustment_quantity # None
    /\ adjustments[2].adjustment_quantity = None

-----------------------------------------------------------------------------
(* C30 *)

\* The candidates of the claim-control value.
ControlCandidates == claim_key_candidates(payer_claim_control_number)

\* Neither the direct match nor the original-claim-id fallback has a row.
NoHeaderHit ==
    /\ \A i \in 1..Len(claim_key_candidates(pcn)) :
           RowsByClaimId(claim_headers, claim_key_candidates(pcn)[i]) = {}
    /\ \A i \in 1..Len(ControlCandidates) :
           RowsByOriginalClaimId(claim_headers, ControlCandidates[i]) = {}

\* The pairs (candidate position, qualifier position) with a matching
\* reference row.
MatchingPairs ==
    {pr \in (1..Len(ControlCandidates)) \X (1..Len(qualifier_priority)) :
        RowsByQualifiedRef(claim_references, qualifier_priority[pr[2]],
                           ControlCandidates[pr[1]]) # {}}

\* The first of them, by candidate position and then by qualifier position.
FirstPair ==
    CHOOSE pr \in MatchingPairs :
        \A o \in MatchingPairs : pr[1] < o[1] \/ (pr[1] = o[1] /\ pr[2] <= o[2])

\* C30: when neither header strategy has a hit, the result of the qualified
\* reference strategy is a row of the first pair (candidate, qualifier) with a
\* matching row, by candidate position and then by qualifier priority, with
\* the reason MATCHED_REF_ and that qualifier; without such a pair a reference
\* row can only be matched with the reason MATCHED_REF_ANY.
C30_CandidateThenQualifier ==
    mpc = "done" /\ NoHeaderHit =>
        IF MatchingPairs # {}
        THEN /\ match_result.strategy = "clp07_ref"
             /\ match_result.reason_code =
                    <<"MATCHED_REF_", qualifier_priority[FirstPair[2]]>>
             /\ \E r \in RowsByQualifiedRef(claim_references,
                                            qualifier_priority[FirstPair[2]],
                                            ControlCandidates[FirstPair[1]]) :
                    match_result.claim_header_id = r.claim_header_id
        ELSE match_result.strategy = "clp07_ref" =>
                 /\ match_result.reason_code = <<"MATCHED_REF_", "ANY">>
                 /\ \E i \in 1..Len(ControlCandidates) :
                        \E r \in RowsByRefValue(claim_references, ControlCandidates[i]) :
                            /\ r.reference_qualifier \notin Range(qualifier_priority)
                            /\ match_result.claim_header_id = r.claim_header_id

\* The claim-control value 0A has the candidates 0A and A; the store holds a
\* D9 reference for 0A and a 1K reference for A, and 1K comes before D9 in the
\* configured order: the D9 row of the earlier candidate is the result.
C30_Witness ==
    /\ mpc = "done"
    /\ payer_claim_control_number = Key0A
    /\ qualifier_priority = DefaultQualifierPriority
    /\ RefRow(<<"2">>, "D9", Key0A) \in claim_references
    /\ RefRow(<<"1">>, "1K", KeyA) \in claim_references
    /\ NoHeaderHit
    /\ match_result.reason_code = <<"MATCHED_REF_", "D9">>
    /\ match_result.claim_header_id = <<"2">>

-----------------------------------------------------------------------------
(* The store behind client.table(...): tables of rows *)
(* A dict (a payload, a row, a parsed record) is a function on the keys it     *)
(* holds.  The store is the collaborator the loader talks to through          *)
(* client.table(name).select/insert/update/delete ... .execute(); its          *)
(* filters follow the store the unit tests load into: eq compares the row's    *)
(* value (None for a column the row does not hold) with the given value, and   *)
(* is_(column, "null") keeps the rows whose value is None.  Ids come from a    *)
(* sequence per table and are never handed out twice; an id is held as its     *)
(* decimal text, so that an id and None compare.                               *)

\* d.get(k, default)
DictGet(d, k, default) == IF k \in DOMAIN d THEN d[k] ELSE default

\* {**a, **b}, and a.update(b)
Updated(a, b) ==
    [k \in DOMAIN a \cup DOMAIN b |-> IF k \in DOMAIN b THEN b[k] ELSE a[k]]

DigitText == <<"0", "1", "2", "3", "4", "5", "6", "7", "8", "9">>

\* str(n) of an id
RECURSIVE Decimal(_)
Decimal(n) ==
    IF n < 10 THEN <<DigitText[n + 1]>>
    ELSE Append(Decimal(n \div 10), DigitText[(n % 10) + 1])

TableNames ==
    {"edi_file_log", "claim_headers", "claim_lines", "claim_diagnoses",
     "claim_dates", "claim_providers", "claim_references", "prediction_history",
     "claim_payments", "claim_adjustments", "claim_payment_lines"}

EmptyStore ==
    [tables |-> [t \in TableNames |-> <<>>], sequences |-> [t \in TableNames |-> 0]]

\* .eq(key, value) and .is_(key, "null")
Eq(k, v) == [op |-> "eq", key |-> k, value |-> v]
Is(k, v) == [op |-> "is", key |-> k, value |-> v]

\* A row passes every filter of the query.
Matches(row, filters) ==
    \A i \in 1..Len(filters) :
        LET f == filters[i]
        IN  IF f.op = "eq" THEN DictGet(row, f.key, None) = f.value
            ELSE f.value = "null" => DictGet(row, f.key, None) = None

\* select(...).<filters>.execute(): the rows of the answer.  With limit(1) the
\* answer is one of them, in no stated order.
Select(db, t, filters) == SelectSeq(db.tables[t], LAMBDA row : Matches(row, filters))

\* insert(payload).execute(): the row gets the next id of the table's sequence
\* and the answer holds the row, the last of the table.
Insert(db, t, payload) ==
    LET row == Updated([id |-> Decimal(db.sequences[t] + 1)], payload)
    IN  [tables    |-> [db.tables EXCEPT ![t] = Append(@, row)],
         sequences |-> [db.sequences EXCEPT ![t] = @ + 1]]

InsertedId(db, t) == db.tables[t][Len(db.tables[t])].id

\* update(payload).<filters>.execute(): the payload's columns are written into
\* every row that passes, the other columns stay.
RECURSIVE UpdateRows(_, _, _)
UpdateRows(rows, payload, filters) ==
    IF rows = <<>> THEN <<>>
    ELSE <<IF Matches(Head(rows), filters) THEN Updated(Head(rows), payload)
           ELSE Head(rows)>> \o UpdateRows(Tail(rows), payload, filters)

Update(db, t, payload, filters) ==
    [db EXCEPT !.tables[t] = UpdateRows(@, payload, filters)]

\* delete().<filters>.execute()
Delete(db, t, filters) ==
    [db EXCEPT !.tables[t] = SelectSeq(@, LAMBDA row : ~Matches(row, filters))]

-----------------------------------------------------------------------------
(* loader_persistence.py *)
(* An operation on the store is the set of its outcomes, one per row a         *)
(* limit(1) query may answer with: the store after it and what it returned.    *)

\* A slip: the organisation is left out of the query.
HeaderKeyQueryAnyOrg(payload) ==
    <<Eq("claim_id", DictGet(payload, "claim_id", None)),
      Eq("file_name", DictGet(payload, "file_name", None)),
      Eq("file_type", DictGet(payload, "file_type", None))>>

\* The filters of the natural key of a claim header (lines 54-66)
HeaderKeyQuery(payload) ==
    LET org_id == DictGet(payload, "org_id", None)
    IN  <<Eq("claim_id", DictGet(payload, "claim_id", None)),
          Eq("file_name", DictGet(payload, "file_name", None)),
          Eq("file_type", DictGet(payload, "file_type", None)),
          IF org_id = None THEN Is("org_id", "null") ELSE Eq("org_id", org_id)>>

\* upsert_claim_header(client, payload): (header_id, existed)
upsert_claim_header(db, payload) ==
    LET existing == Select(db, "claim_headers", HeaderKeyQuery(payload))
        created  == Insert(db, "claim_headers", payload)
    IN  IF existing # <<>>
        THEN {[db      |-> Update(db, "claim_headers", payload, <<Eq("id", row.id)>>),
               id      |-> row.id,
               existed |-> TRUE] : row \in Range(existing)}
        ELSE {[db |-> created, id |-> InsertedId(created, "claim_headers"),
               existed |-> FALSE]}

\* clear_claim_children(client, header_id)
ClaimChildTables ==
    <<"claim_lines", "claim_diagnoses", "claim_dates", "claim_providers",
      "claim_references">>

RECURSIVE DeleteEach(_, _, _)
DeleteEach(db, ts, filters) ==
    IF ts = <<>> THEN db
    ELSE DeleteEach(Delete(db, Head(ts), filters), Tail(ts), filters)

clear_claim_children(db, header_id) ==
    DeleteEach(db, ClaimChildTables, <<Eq("claim_header_id", header_id)>>)

\* The filters of the natural key of a claim payment (lines 94-106)
PaymentKeyQuery(payload) ==
    LET payment_date == DictGet(payload, "payment_date", None)
    IN  <<Eq("file_name", DictGet(payload, "file_name", None)),
          Eq("patient_control_number",
             DictGet(payload, "patient_control_number", None)),
          Eq("check_number", DictGet(payload, "check_number", None)),
          IF payment_date = None THEN Is("payment_date", "null")
          ELSE Eq("payment_date", payment_date)>>

\* upsert_claim_payment(client, payload): (payment_id, existed)
upsert_claim_payment(db, payload) ==
    LET existing == Select(db, "claim_payments", PaymentKeyQuery(payload))
        created  == Insert(db, "claim_payments", payload)
    IN  IF existing # <<>>
        THEN {[db      |-> Update(db, "claim_payments", payload, <<Eq("id", row.id)>>),
               id      |-> row.id,
               existed |-> TRUE] : row \in Range(existing)}
        ELSE {[db |-> created, id |-> InsertedId(created, "claim_payments"),
               existed |-> FALSE]}

\* clear_payment_children(client, payment_id)
PaymentChildTables == <<"claim_adjustments", "claim_payment_lines">>

clear_payment_children(db, payment_id) ==
    DeleteEach(db, PaymentChildTables, <<Eq("claim_payment_id", payment_id)>>)

\* get_claim_payments_optional_columns(client): the columns the probe of each
\* candidate finds, kept for the life of the process
OptionalColumns == <<"payer_claim_control_number", "match_strategy", "match_reason_code">>

\* build_optional_payment_fields(client, payer_claim_control_number,
\*                               match_strategy, match_reason_code)
build_optional_payment_fields(supported, pccn, strategy, reason) ==
    LET all == [payer_claim_control_number |-> pccn,
                match_strategy             |-> strategy,
                match_reason_code          |-> reason]
    IN  [k \in {c \in Range(OptionalColumns) : c \in supported} |-> all[k]]

-----------------------------------------------------------------------------
(* load_to_supabase.py: one record *)
(* Of the columns a payload copies from the record with .get, the ones below   *)
(* are held; the others are copied the same way.  A float is held as its repr. *)

\* _to_decimal(value)
to_decimal(v) == IF v = None THEN None ELSE FloatOf(v)

\* "paid and paid > 0" of a float-or-None
Positive(f) == f # None /\ Head(f) # "-" /\ f # <<"0", ".", "0">>

\* The key of the parsed record that holds the children, and their table.
ChildTable(kind) ==
    CASE kind = "lines"        -> "claim_lines"
      [] kind = "diagnoses"    -> "claim_diagnoses"
      [] kind = "dates_header" -> "claim_dates"
      [] kind = "dates_line"   -> "claim_dates"
      [] kind = "providers"    -> "claim_providers"
      [] kind = "references"   -> "claim_references"

\* The payload of one child row of a claim header (lines 158-233).
ChildRow(kind, header_id, rec, line_id_map) ==
    CASE kind = "lines" ->
           [claim_header_id |-> header_id,
            line_number     |-> DictGet(rec, "line_number", <<"1">>),
            procedure_code  |-> DictGet(rec, "procedure_code", None),
            charge_amount   |-> to_decimal(DictGet(rec, "charge_amount", None))]
      [] kind = "diagnoses" ->
           [claim_header_id |-> header_id,
            diagnosis_code  |-> DictGet(rec, "diagnosis_code", <<>>),
            diagnosis_type  |-> DictGet(rec, "diagnosis_type", <<"other">>),
            sequence_number |-> DictGet(rec, "sequence_number", <<"1">>)]
      [] kind = "dates_header" ->
           [claim_header_id |-> header_id,
            date_qualifier  |-> DictGet(rec, "date_qualifier", <<>>),
            date_value      |-> DictGet(rec, "date_value", <<>>),
            parsed_date     |-> DictGet(rec, "parsed_date", None)]
      [] kind = "dates_line" ->
           [claim_header_id |-> header_id,
            claim_line_id   |-> DictGet(line_id_map,
                                        DictGet(rec, "line_number", None), None),
            date_qualifier  |-> DictGet(rec, "date_qualifier", <<>>),
            date_value      |-> DictGet(rec, "date_value", <<>>),
            parsed_date     |-> DictGet(rec, "parsed_date", None)]
      [] kind = "providers" ->
           [claim_header_id |-> header_id,
            provider_role   |-> DictGet(rec, "provider_role", <<"other">>),
            npi             |-> DictGet(rec, "npi", None),
            taxonomy_code   |-> DictGet(rec, "taxonomy_code", None)]
      [] kind = "references" ->
           [claim_header_id     |-> header_id,
            reference_qualifier |-> DictGet(rec, "reference_qualifier", <<>>),
            reference_value     |-> DictGet(rec, "reference_value", None)]

\* for rec in claim_data.get(kind, []): client.table(...).insert({...}).execute()
RECURSIVE InsertChildren(_, _, _, _, _)
InsertChildren(db, kind, header_id, recs, line_id_map) ==
    IF recs = <<>> THEN db
    ELSE InsertChildren(Insert(db, ChildTable(kind),
                               ChildRow(kind, header_id, Head(recs), line_id_map)),
                        kind, header_id, Tail(recs), line_id_map)

\* line_id_map after the loop over the lines: the id of the last line inserted
\* under each line number, the first line getting the id after `before`.
LineIdMap(line_recs, before) ==
    LET number(i) == DictGet(line_recs[i], "line_number", <<"1">>)
        numbers   == {number(i) : i \in 1..Len(line_recs)}
        last(n)   == CHOOSE i \in 1..Len(line_recs) :
                        /\ number(i) = n
                        /\ \A j \in 1..Len(line_recs) : number(j) = n => j <= i
    IN  [n \in numbers |-> Decimal(before + last(n))]

\* The claim header payload (lines 123-148)
ClaimPayload(body, org_id) ==
    [org_id              |-> org_id,
     claim_id            |-> DictGet(body, "claim_id", <<>>),
     claim_type          |-> DictGet(body, "claim_type", <<"professional">>),
     file_name           |-> DictGet(body, "file_name", None),
     file_type           |-> DictGet(body, "file_type", None),
     total_charge_amount |-> to_decimal(DictGet(body, "total_charge_amount", None)),
     claim_status        |-> <<"submitted">>,
     payer_id            |-> DictGet(body, "payer_id", None),
     prior_auth_status   |-> DictGet(body, "prior_auth_status", <<"none">>)]

\* A slip: the children of a header that exists are kept.
AfterChildrenKept(db, claim_data, header_id, existed) ==
    LET recs(kind) == DictGet(claim_data, kind, <<>>)
        line_id_map == LineIdMap(recs("lines"), db.sequences["claim_lines"])
        d1 == InsertChildren(db, "lines", header_id, recs("lines"), line_id_map)
        d2 == InsertChildren(d1, "diagnoses", header_id, recs("diagnoses"), line_id_map)
        d3 == InsertChildren(d2, "dates_header", header_id, recs("dates_header"),
                             line_id_map)
        d4 == InsertChildren(d3, "dates_line", header_id, recs("dates_line"),
                             line_id_map)
        d5 == InsertChildren(d4, "providers", header_id, recs("providers"),
                             line_id_map)
    IN  InsertChildren(d5, "references", header_id, recs("references"), line_id_map)

\* The children of a header that exists are deleted before the record's are
\* inserted, in the order of lines 157-233.
AfterChildren(db, claim_data, header_id, existed) ==
    LET cleared == IF existed THEN clear_claim_children(db, header_id) ELSE db
        recs(kind) == DictGet(claim_data, kind, <<>>)
        line_id_map == LineIdMap(recs("lines"), cleared.sequences["claim_lines"])
        d1 == InsertChildren(cleared, "lines", header_id, recs("lines"), line_id_map)
        d2 == InsertChildren(d1, "diagnoses", header_id, recs("diagnoses"), line_id_map)
        d3 == InsertChildren(d2, "dates_header", header_id, recs("dates_header"),
                             line_id_map)
        d4 == InsertChildren(d3, "dates_line", header_id, recs("dates_line"),
                             line_id_map)
        d5 == InsertChildren(d4, "providers", header_id, recs("providers"),
                             line_id_map)
    IN  InsertChildren(d5, "references", header_id, recs("references"), line_id_map)

\* _load_single_claim(client, claim_data, org_id): the header id it returns, or
\* the KeyError of claim_data['claim'].
load_single_claim(db, claim_data, org_id) ==
    IF "claim" \notin DOMAIN claim_data
    THEN {[db |-> db, raised |-> TRUE, id |-> None]}
    ELSE {[db     |-> AfterChildren(u.db, claim_data, u.id, u.existed),
           raised |-> FALSE,
           id     |-> u.id] :
             u \in upsert_claim_header(db, ClaimPayload(claim_data["claim"], org_id))}

\* The store's claim headers and references as match_claim_header reads them.
HeadersForMatch(db) ==
    {[id                |-> row.id,
      claim_id          |-> DictGet(row, "claim_id", None),
      original_claim_id |-> DictGet(row, "original_claim_id", None)] :
        row \in Range(db.tables["claim_headers"])}

ReferencesForMatch(db) ==
    {[claim_header_id     |-> row.claim_header_id,
      reference_qualifier |-> row.reference_qualifier,
      reference_value     |-> row.reference_value] :
        row \in Range(db.tables["claim_references"])}

\* The update of the matched claim header (lines 324-331)
PaymentInfo(pmt) ==
    LET paid == to_decimal(DictGet(pmt, "paid_amount", None))
    IN  [paid_amount            |-> paid,
         patient_responsibility |->
             to_decimal(DictGet(pmt, "patient_responsibility", None)),
         claim_status           |->
             IF DictGet(pmt, "claim_status_code", None) = <<"4">> THEN <<"denied">>
             ELSE IF Positive(paid) THEN <<"paid">> ELSE <<"partial">>]

\* The claim payment payload (lines 340-362)
PaymentPayload(pmt, org_id, match, supported) ==
    Updated([claim_header_id        |-> match.claim_header_id,
             org_id                 |-> org_id,
             file_name              |-> DictGet(pmt, "file_name", None),
             patient_control_number |-> DictGet(pmt, "patient_control_number", <<>>),
             claim_status_code      |-> DictGet(pmt, "claim_status_code", None),
             paid_amount            |-> to_decimal(DictGet(pmt, "paid_amount", None)),
             check_number           |-> DictGet(pmt, "check_number", None),
             payment_date           |-> DictGet(pmt, "payment_date", None)],
            build_optional_payment_fields(
                supported, DictGet(pmt, "payer_claim_control_number", <<>>),
                match.strategy, match.reason_code))

\* One claim_adjustments row; `line` is empty for a claim-level adjustment and
\* holds claim_payment_line_id for a service line's (lines 373-381, 401-410).
AdjustmentRow(payment_id, line, adj) ==
    Updated(Updated([claim_payment_id |-> payment_id], line),
            [adjustment_group_code |-> DictGet(adj, "adjustment_group_code",
                                               <<"O", "A">>),
             carc_code             |-> DictGet(adj, "carc_code", <<>>),
             adjustment_amount     |->
                 to_decimal(DictGet(adj, "adjustment_amount", None))])

RECURSIVE InsertAdjustments(_, _, _, _)
InsertAdjustments(db, payment_id, line, adjs) ==
    IF adjs = <<>> THEN db
    ELSE InsertAdjustments(Insert(db, "claim_adjustments",
                                  AdjustmentRow(payment_id, line, Head(adjs))),
                           payment_id, line, Tail(adjs))

\* for svc in payment_data.get('service_lines', []) (lines 384-410)
RECURSIVE InsertServiceLines(_, _, _)
InsertServiceLines(db, payment_id, svcs) ==
    IF svcs = <<>> THEN db
    ELSE LET svc == Head(svcs)
             with_line ==
                 Insert(db, "claim_payment_lines",
                        [claim_payment_id |-> payment_id,
                         procedure_code   |-> DictGet(svc, "procedure_code", None),
                         charge_amount    |->
                             to_decimal(DictGet(svc, "charge_amount", None)),
                         paid_amount      |->
                             to_decimal(DictGet(svc, "paid_amount", None))])
             svc_line_id == InsertedId(with_line, "claim_payment_lines")
         IN  InsertServiceLines(
                 InsertAdjustments(with_line, payment_id,
                                   [claim_payment_line_id |-> svc_line_id],
                                   DictGet(svc, "adjustments", <<>>)),
                 payment_id, Tail(svcs))

\* _load_single_payment(client, payment_data, org_id): what it returns (of which
\* the match strategy is held; the sums of floats are not), or the KeyError of
\* payment_data['payment'].
load_single_payment(db, payment_data, org_id, supported) ==
    IF "payment" \notin DOMAIN payment_data
    THEN {[db |-> db, raised |-> TRUE, match_strategy |-> "unmatched"]}
    ELSE LET pmt == payment_data["payment"]
             matches == match_claim_header(
                            HeadersForMatch(db), ReferencesForMatch(db),
                            DefaultQualifierPriority,
                            DictGet(pmt, "patient_control_number", <<>>),
                            DictGet(pmt, "payer_claim_control_number", <<>>))
             Matched(m) ==
                 IF m.claim_header_id # None
                 THEN Update(db, "claim_headers", PaymentInfo(pmt),
                             <<Eq("id", m.claim_header_id)>>)
                 ELSE db
             Children(u) ==
                 InsertServiceLines(
                     InsertAdjustments(
                         IF u.existed THEN clear_payment_children(u.db, u.id)
                         ELSE u.db,
                         u.id, <<>>, DictGet(payment_data, "adjustments", <<>>)),
                     u.id, DictGet(payment_data, "service_lines", <<>>))
         IN  UNION {{[db |-> Children(u), raised |-> FALSE,
                      match_strategy |-> m.strategy] :
                       u \in upsert_claim_payment(
                                 Matched(m), PaymentPayload(pmt, org_id, m, supported))} :
                    m \in matches}

-----------------------------------------------------------------------------
(* load_to_supabase.py: one file *)

\* A slip: the duplicate is looked up by the name of the file.
DuplicateQueryByName(file_data) == <<Eq("file_name", file_data["file_name"])>>

\* The query of the duplicate check (lines 61-65, 245-249)
DuplicateQuery(file_data) == <<Eq("file_hash", DictGet(file_data, "file_hash", <<>>))>>

Skipped == [skipped |-> TRUE, reason |-> <<"duplicate">>]

\* The row that logs the file (lines 71-78, 254-261)
FileLogRow(file_data, file_type, org_id) ==
    [org_id       |-> org_id,
     file_name    |-> file_data["file_name"],
     file_type    |-> file_type,
     file_hash    |-> DictGet(file_data, "file_hash", <<>>),
     record_count |-> DictGet(file_data, "record_count", <<"0">>),
     status       |-> <<"processing">>]

\* A slip: a file with errors is closed as 'failed'.
FileLogClosedAsFailed(db, file_log_id, errors) ==
    Update(db, "edi_file_log",
           [status        |-> IF errors = <<>> THEN <<"processed">> ELSE <<"failed">>,
            error_message |-> IF errors = <<>> THEN None
                              ELSE SubSeq(errors, 1, IF Len(errors) < 5 THEN Len(errors)
                                                     ELSE 5)],
           <<Eq("id", file_log_id)>>)

\* The update that closes the log row (lines 100-106, 286-290); an error
\* message is held as the record it names and the exception.
FileLogClosed(db, file_log_id, errors) ==
    Update(db, "edi_file_log",
           [status        |-> <<"processed">>,
            error_message |-> IF errors = <<>> THEN None
                              ELSE SubSeq(errors, 1, IF Len(errors) < 5 THEN Len(errors)
                                                     ELSE 5)],
           <<Eq("id", file_log_id)>>)

\* A slip: the loop ends at the first record that raises.
RECURSIVE LoadClaimsStopping(_, _, _)
LoadClaimsStopping(acc, records, org_id) ==
    IF records = <<>> THEN {acc}
    ELSE UNION {IF o.raised
                THEN {[acc EXCEPT !.db = o.db,
                                  !.errors = Append(@,
                                      [record |-> DictGet(DictGet(Head(records),
                                                                  "claim", <<>>),
                                                          "claim_id", <<"?">>),
                                       error  |-> "KeyError"])]}
                ELSE LoadClaimsStopping(
                         [acc EXCEPT !.db = o.db, !.loaded = @ + 1,
                                     !.ids = Append(@, o.id)],
                         Tail(records), org_id) :
                  o \in load_single_claim(acc.db, Head(records), org_id)}

\* The loop over the claims (lines 85-91): every way it can run, as the store,
\* the count, the errors and the ids at its end.
RECURSIVE LoadClaims(_, _, _)
LoadClaims(acc, records, org_id) ==
    IF records = <<>> THEN {acc}
    ELSE UNION {LoadClaims(
                    IF o.raised
                    THEN [acc EXCEPT !.db = o.db,
                                     !.errors = Append(@,
                                         [record |-> DictGet(DictGet(Head(records),
                                                                     "claim", <<>>),
                                                             "claim_id", <<"?">>),
                                          error  |-> "KeyError"])]
                    ELSE [acc EXCEPT !.db = o.db, !.loaded = @ + 1,
                                     !.ids = Append(@, o.id)],
                    Tail(records), org_id) :
                  o \in load_single_claim(acc.db, Head(records), org_id)}

\* _score_loaded_claims(client, claim_header_ids) with score_claim_ids: when the
\* model artifact exists, every loaded header that the store holds gets a
\* score and a prediction_history row; the score is held as one opaque value.
RECURSIVE ScoreRows(_, _)
ScoreRows(db, rows) ==
    IF rows = <<>> THEN db
    ELSE ScoreRows(
             Insert(Update(db, "claim_headers", [prediction_score |-> <<"score">>],
                           <<Eq("id", Head(rows).id)>>),
                    "prediction_history",
                    [claim_header_id  |-> Head(rows).id,
                     prediction_score |-> <<"score">>]),
             Tail(rows))

score_loaded_claims(db, claim_header_ids, artifact) ==
    IF claim_header_ids = <<>> \/ ~artifact THEN db
    ELSE ScoreRows(db, SelectSeq(db.tables["claim_headers"],
                                 LAMBDA row : row.id \in Range(claim_header_ids)))

\* load_837_file(client, file_data, org_id): the store after it and what it
\* returns (of which 'loaded' and 'errors' are held)
load_837_file(db, file_data, org_id, artifact) ==
    IF Select(db, "edi_file_log", DuplicateQuery(file_data)) # <<>>
    THEN {[db |-> db, result |-> Skipped]}
    ELSE LET logged == Insert(db, "edi_file_log",
                              FileLogRow(file_data, file_data["file_type"], org_id))
             file_log_id == InsertedId(logged, "edi_file_log")
         IN  {[db     |-> FileLogClosed(score_loaded_claims(o.db, o.ids, artifact),
                                        file_log_id, o.errors),
               result |-> [loaded |-> o.loaded, errors |-> o.errors]] :
                 o \in LoadClaims([db |-> logged, loaded |-> 0, errors |-> <<>>,
                                   ids |-> <<>>],
                                  DictGet(file_data, "claims", <<>>), org_id)}

\* The loop over the payments (lines 273-284), with matched_counts
RECURSIVE LoadPayments(_, _, _, _)
LoadPayments(acc, records, org_id, supported) ==
    IF records = <<>> THEN {acc}
    ELSE UNION {LoadPayments(
                    IF o.raised
                    THEN [acc EXCEPT !.db = o.db,
                                     !.errors = Append(@,
                                         [record |-> DictGet(DictGet(Head(records),
                                                                     "payment", <<>>),
                                                             "patient_control_number",
                                                             <<"?">>),
                                          error  |-> "KeyError"])]
                    ELSE [db             |-> o.db,
                          loaded         |-> acc.loaded + 1,
                          errors         |-> acc.errors,
                          matched_counts |->
                              [k \in MATCH_STRATEGY_KEYS |->
                                  IF k = o.match_strategy
                                  THEN acc.matched_counts[k] + 1
                                  ELSE acc.matched_counts[k]]],
                    Tail(records), org_id, supported) :
                  o \in load_single_payment(acc.db, Head(records), org_id, supported)}

\* load_835_file(client, file_data, org_id): the store after it and what it
\* returns (of which 'loaded', 'errors' and 'match_summary' are held)
load_835_file(db, file_data, org_id, supported) ==
    IF Select(db, "edi_file_log", DuplicateQuery(file_data)) # <<>>
    THEN {[db |-> db, result |-> Skipped]}
    ELSE LET logged == Insert(db, "edi_file_log",
                              FileLogRow(file_data, <<"835">>, org_id))
             file_log_id == InsertedId(logged, "edi_file_log")
         IN  {[db     |-> FileLogClosed(o.db, file_log_id, o.errors),
               result |-> [loaded |-> o.loaded, errors |-> o.errors,
                           match_summary |-> o.matched_counts]] :
                 o \in LoadPayments([db |-> logged, loaded |-> 0, errors |-> <<>>,
                                     matched_counts |->
                                         [k \in MATCH_STRATEGY_KEYS |-> 0]],
                                    DictGet(file_data, "payments", <<>>), org_id,
                                    supported)}

-----------------------------------------------------------------------------
(* load_to_supabase.py and loader_persistence.py: the calls *)
(* A process keeps the store (tables, sequences), whether the model artifact   *)
(* of the claim scoring exists, and the optional columns it detected; it makes *)
(* one call after the other.  last_call holds the latest call and returned     *)
(* what it returned.                                                           *)

Amount150 == <<"1", "5", "0", ".", "0">>
Amount10  == <<"1", "0", ".", "0">>
Amount125 == <<"1", "2", ".", "5">>

\* Parsed 837P records, as parse_837p_file writes them.
ClaimRecordA ==
    [claim        |-> [claim_id |-> KeyA, file_name |-> <<"f1">>,
                       file_type |-> <<"837P">>, total_charge_amount |-> Amount150,
                       payer_id |-> <<"P1">>],
     lines        |-> <<[line_number |-> <<"1">>, procedure_code |-> <<"99213">>,
                         charge_amount |-> Amount150]>>,
     diagnoses    |-> <<[diagnosis_code |-> <<"J06.9">>,
                         diagnosis_type |-> <<"principal">>,
                         sequence_number |-> <<"1">>]>>,
     dates_header |-> <<>>,
     dates_line   |-> <<[line_number |-> <<"1">>, date_qualifier |-> <<"472">>,
                         date_value |-> <<"20240105">>,
                         parsed_date |-> <<"2024-01-05">>]>>,
     providers    |-> <<[provider_role |-> <<"billing">>, npi |-> <<"1234567893">>]>>,
     references   |-> <<[reference_qualifier |-> "D9", reference_value |-> KeyB]>>]

ClaimRecordB ==
    [claim        |-> [claim_id |-> KeyB, file_name |-> <<"f1">>,
                       file_type |-> <<"837P">>],
     lines        |-> <<>>,
     diagnoses    |-> <<>>,
     dates_header |-> <<[date_qualifier |-> <<"431">>, date_value |-> <<"20240101">>,
                         parsed_date |-> <<"2024-01-01">>]>>,
     dates_line   |-> <<>>,
     providers    |-> <<>>,
     references   |-> <<>>]

\* A record that cannot be loaded: it holds no 'claim'.
ClaimRecordBad == [lines |-> <<>>]

\* Parsed 837P files: a file of three records, and the same file under another
\* name.
Files837 ==
    {[file_name |-> <<"f1">>, file_type |-> <<"837P">>, file_hash |-> <<"h1">>,
      record_count |-> <<"3">>,
      claims |-> <<ClaimRecordA, ClaimRecordBad, ClaimRecordB>>],
     [file_name |-> <<"f1-copy">>, file_type |-> <<"837P">>, file_hash |-> <<"h1">>,
      record_count |-> <<"3">>,
      claims |-> <<ClaimRecordA, ClaimRecordBad, ClaimRecordB>>]}

CasRecord ==
    [adjustment_group_code |-> <<"C", "O">>, carc_code |-> <<"4", "5">>,
     adjustment_amount |-> Amount10]

\* Parsed 835 records, as parse_835_file writes them.
PaymentRecordA ==
    [payment       |-> [file_name |-> <<"p1">>, patient_control_number |-> KeyA,
                        payer_claim_control_number |-> <<>>,
                        claim_status_code |-> <<"1">>, paid_amount |-> Amount125,
                        check_number |-> <<"C1">>,
                        payment_date |-> <<"2024-02-01">>],
     adjustments   |-> <<CasRecord>>,
     service_lines |-> <<[procedure_code |-> <<"99213">>, charge_amount |-> Amount150,
                          paid_amount |-> Amount125,
                          adjustments |-> <<CasRecord>>]>>]

PaymentRecordB ==
    [payment       |-> [file_name |-> <<"p2">>, patient_control_number |-> <<>>,
                        payer_claim_control_number |-> KeyB,
                        claim_status_code |-> <<"4">>, paid_amount |-> None,
                        check_number |-> None, payment_date |-> None],
     adjustments   |-> <<>>,
     service_lines |-> <<>>]

\* A record that cannot be loaded: it holds no 'payment'.
PaymentRecordBad == [adjustments |-> <<>>]

\* Parsed 835 files: one with its hash, one that holds no file_hash.
Files835 ==
    {[file_name |-> <<"p1">>, file_hash |-> <<"h2">>, record_count |-> <<"1">>,
      payments |-> <<PaymentRecordA>>],
     [file_name |-> <<"p2">>, record_count |-> <<"3">>,
      payments |-> <<PaymentRecordB, PaymentRecordBad, PaymentRecordA>>]}

\* org_id of a call: None or an integer, held as its decimal text
OrgIds == {None, <<"7">>}

\* Payloads of direct calls of upsert_claim_header: the natural key of
\* ClaimRecordA with org_id None, absent or 7, with or without more columns, and
\* another claim_id.
HeaderPayloads ==
    LET key == [claim_id |-> KeyA, file_name |-> <<"f1">>, file_type |-> <<"837P">>]
    IN  {Updated(key, [org_id |-> None]),
         key,
         Updated(key, [org_id |-> None, claim_status |-> <<"paid">>]),
         Updated(key, [org_id |-> <<"7">>]),
         Updated(key, [claim_id |-> KeyB, org_id |-> None])}

\* Payloads of direct calls of upsert_claim_payment
PaymentPayloads ==
    LET key == [file_name |-> <<"p1">>, patient_control_number |-> KeyA]
    IN  {Updated(key, [check_number |-> None, payment_date |-> None,
                       paid_amount |-> Amount10]),
         Updated(key, [check_number |-> None, payment_date |-> None,
                       paid_amount |-> Amount125]),
         Updated(key, [paid_amount |-> Amount10]),
         Updated(key, [check_number |-> <<"C1">>, payment_date |-> <<"2024-02-01">>,
                       paid_amount |-> Amount10])}

\* The number of calls of a run
MaxCalls == 3

Call(op, arg, org_id) == [op |-> op, arg |-> arg, org_id |-> org_id]

Store == [tables |-> tables, sequences |-> sequences]

LoadInit ==
    /\ tables = EmptyStore.tables
    /\ sequences = EmptyStore.sequences
    /\ model_exists \in BOOLEAN
    /\ optional_columns \in {{}, Range(OptionalColumns)}
    /\ calls = 0
    /\ last_call = Call("none", <<>>, None)
    /\ returned = <<>>

\* upsert_claim_header(client, payload)
UpsertClaimHeader ==
    /\ calls < MaxCalls
    /\ \E payload \in HeaderPayloads :
         \E o \in upsert_claim_header(Store, payload) :
            /\ tables' = o.db.tables
            /\ sequences' = o.db.sequences
            /\ returned' = [id |-> o.id, existed |-> o.existed]
            /\ last_call' = Call("upsert_claim_header", payload, None)
    /\ calls' = calls + 1
    /\ UNCHANGED <<model_exists, optional_columns>>
    /\ UNCHANGED notLoadVars

\* upsert_claim_payment(client, payload)
UpsertClaimPayment ==
    /\ calls < MaxCalls
    /\ \E payload \in PaymentPayloads :
         \E o \in upsert_claim_payment(Store, payload) :
            /\ tables' = o.db.tables
            /\ sequences' = o.db.sequences
            /\ returned' = [id |-> o.id, existed |-> o.existed]
            /\ last_call' = Call("upsert_claim_payment", payload, None)
    /\ calls' = calls + 1
    /\ UNCHANGED <<model_exists, optional_columns>>
    /\ UNCHANGED notLoadVars

\* load_837_file(client, file_data, org_id)
Load837File ==
    /\ calls < MaxCalls
    /\ \E file_data \in Files837, org_id \in OrgIds :
         \E o \in load_837_file(Store, file_data, org_id, model_exists) :
            /\ tables' = o.db.tables
            /\ sequences' = o.db.sequences
            /\ returned' = o.result
            /\ last_call' = Call("load_837_file", file_data, org_id)
    /\ calls' = calls + 1
    /\ UNCHANGED <<model_exists, optional_columns>>
    /\ UNCHANGED notLoadVars

\* load_835_file(client, file_data), org_id left at its default
Load835File ==
    /\ calls < MaxCalls
    /\ \E file_data \in Files835 :
         \E o \in load_835_file(Store, file_data, None, optional_columns) :
            /\ tables' = o.db.tables
            /\ sequences' = o.db.sequences
            /\ returned' = o.result
            /\ last_call' = Call("load_835_file", file_data, None)
    /\ calls' = calls + 1
    /\ UNCHANGED <<model_exists, optional_columns>>
    /\ UNCHANGED notLoadVars

LoadNext == UpsertClaimHeader \/ UpsertClaimPayment \/ Load837File \/ Load835File

-----------------------------------------------------------------------------
(* load_to_supabase.py: the calls of _load_single_claim and _load_single_payment *)
(* The same process, loading one record per call.                               *)

\* ClaimRecordA parsed again from a file that holds a second service line.
ClaimRecordA2 ==
    [claim        |-> [claim_id |-> KeyA, file_name |-> <<"f1">>,
                       file_type |-> <<"837P">>, total_charge_amount |-> Amount150,
                       payer_id |-> <<"P1">>],
     lines        |-> <<[line_number |-> <<"1">>, procedure_code |-> <<"99213">>,
                         charge_amount |-> Amount150],
                        [line_number |-> <<"2">>, procedure_code |-> <<"85025">>,
                         charge_amount |-> Amount10]>>,
     diagnoses    |-> <<>>,
     dates_header |-> <<>>,
     dates_line   |-> <<[line_number |-> <<"2">>, date_qualifier |-> <<"472">>,
                         date_value |-> <<"20240105">>,
                         parsed_date |-> <<"2024-01-05">>]>>,
     providers    |-> <<>>,
     references   |-> <<>>]

ClaimRecords == {ClaimRecordA, ClaimRecordA2, ClaimRecordB, ClaimRecordBad}

\* PaymentRecordA as another check pays it: the same claim, another payment.
PaymentRecordA2 ==
    [payment       |-> [file_name |-> <<"p1">>, patient_control_number |-> KeyA,
                        payer_claim_control_number |-> <<>>,
                        claim_status_code |-> <<"1">>, paid_amount |-> Amount10,
                        check_number |-> <<"C2">>,
                        payment_date |-> <<"2024-02-01">>],
     adjustments   |-> <<>>,
     service_lines |-> <<[procedure_code |-> <<"99213">>, charge_amount |-> Amount150,
                          paid_amount |-> Amount10,
                          adjustments |-> <<CasRecord, CasRecord>>]>>]

PaymentRecords == {PaymentRecordA, PaymentRecordA2, PaymentRecordB, PaymentRecordBad}

\* _load_single_claim(client, claim_data, org_id)
LoadSingleClaim ==
    /\ calls < MaxCalls
    /\ \E claim_data \in ClaimRecords, org_id \in OrgIds :
         \E o \in load_single_claim(Store, claim_data, org_id) :
            /\ tables' = o.db.tables
            /\ sequences' = o.db.sequences
            /\ returned' = [raised |-> o.raised, id |-> o.id]
            /\ last_call' = Call("_load_single_claim", claim_data, org_id)
    /\ calls' = calls + 1
    /\ UNCHANGED <<model_exists, optional_columns>>
    /\ UNCHANGED notLoadVars

\* _load_single_payment(client, payment_data, org_id)
LoadSinglePayment ==
    /\ calls < MaxCalls
    /\ \E payment_data \in PaymentRecords :
         \E o \in load_single_payment(Store, payment_data, None, optional_columns) :
            /\ tables' = o.db.tables
            /\ sequences' = o.db.sequences
            /\ returned' = [raised |-> o.raised, match_strategy |-> o.match_strategy]
            /\ last_call' = Call("_load_single_payment", payment_data, None)
    /\ calls' = calls + 1
    /\ UNCHANGED <<model_exists, optional_columns>>
    /\ UNCHANGED notLoadVars

RecordNext == LoadSingleClaim \/ LoadSinglePayment

-----------------------------------------------------------------------------
(* C23 *)

\* The natural key a payload or a row holds; a column it does not hold is None.
HeaderKey(d) ==
    <<DictGet(d, "claim_id", None), DictGet(d, "file_name", None),
      DictGet(d, "file_type", None), DictGet(d, "org_id", None)>>

PaymentKey(d) ==
    <<DictGet(d, "file_name", None), DictGet(d, "patient_control_number", None),
      DictGet(d, "check_number", None), DictGet(d, "payment_date", None)>>

\* No two rows of the two tables hold the same natural key.
OneRowPerKey(headers, pays) ==
    /\ \A i, j \in 1..Len(headers) : HeaderKey(headers[i]) = HeaderKey(headers[j]) => i = j
    /\ \A i, j \in 1..Len(pays) : PaymentKey(pays[i]) = PaymentKey(pays[j]) => i = j

\* What one upsert with `payload` makes of the rows `old` of its table, `same`
\* being the places of the rows that hold the payload's key: without such a
\* row, one more row with a new id and the payload's columns, and (id, False)
\* returned; with one, that row with the payload's columns written over its
\* own, nothing else changed, and (its id, True) returned.
UpsertedAsClaimed(old, new, same, payload, result) ==
    IF same = {}
    THEN /\ result.existed = FALSE
         /\ \A i \in 1..Len(old) : old[i].id # result.id
         /\ new = Append(old, Updated([id |-> result.id], payload))
    ELSE \E i \in same :
            /\ result = [id |-> old[i].id, existed |-> TRUE]
            /\ new = [old EXCEPT ![i] = Updated(old[i], payload)]

\* C23: from an empty store, claim_headers never holds two rows with the same
\* (claim_id, file_name, file_type, org_id) and claim_payments never two with
\* the same (file_name, patient_control_number, check_number, payment_date);
\* a call of upsert_claim_header or upsert_claim_payment whose key no row holds
\* inserts and returns (new id, False), and one whose key a row holds returns
\* (that row's id, True) and writes the payload over the row.
C23_OneRowPerNaturalKey ==
    [][/\ OneRowPerKey(tables'["claim_headers"], tables'["claim_payments"])
       /\ calls' = calls + 1 /\ last_call'.op = "upsert_claim_header" =>
            UpsertedAsClaimed(
                tables["claim_headers"], tables'["claim_headers"],
                {i \in 1..Len(tables["claim_headers"]) :
                    HeaderKey(tables["claim_headers"][i]) = HeaderKey(last_call'.arg)},
                last_call'.arg, returned')
       /\ calls' = calls + 1 /\ last_call'.op = "upsert_claim_payment" =>
            UpsertedAsClaimed(
                tables["claim_payments"], tables'["claim_payments"],
                {i \in 1..Len(tables["claim_payments"]) :
                    PaymentKey(tables["claim_payments"][i]) = PaymentKey(last_call'.arg)},
                last_call'.arg, returned')]_vars

\* A later call for a key returned the id of the first call for it and wrote
\* its payload over that row, with the row of a second key in the table.
C23_Witness ==
    /\ last_call = Call("upsert_claim_header",
                        Updated([claim_id |-> KeyA, file_name |-> <<"f1">>,
                                 file_type |-> <<"837P">>],
                                [org_id |-> None, claim_status |-> <<"paid">>]), None)
    /\ returned = [id |-> <<"1">>, existed |-> TRUE]
    /\ Len(tables["claim_headers"]) = 2
    /\ tables["claim_headers"][1].claim_status = <<"paid">>
    /\ HeaderKey(tables["claim_headers"][2]) # HeaderKey(last_call.arg)

-----------------------------------------------------------------------------
(* C22 *)

LoadOps == {"load_837_file", "load_835_file"}

\* The step is a call of one of the two loaders.
LoadStep == calls' = calls + 1 /\ last_call'.op \in LoadOps

\* C22: a call of load_837_file or load_835_file with a file whose file_hash a
\* row of edi_file_log holds returns {skipped: true, reason: 'duplicate'} and
\* leaves every table as it was; so does a call with the file of the call
\* before it, when that was a call of a loader too.
C22_DuplicateSkipped ==
    [][LoadStep =>
        /\ (\E i \in 1..Len(tables["edi_file_log"]) :
               tables["edi_file_log"][i].file_hash =
                   DictGet(last_call'.arg, "file_hash", <<>>))
           => returned' = Skipped /\ tables' = tables /\ sequences' = sequences
        /\ last_call.op \in LoadOps /\ last_call.arg = last_call'.arg
           => tables' = tables /\ sequences' = sequences]_vars

\* A file was skipped though no logged file has its name, and the store holds
\* rows of a file loaded before.
C22_Witness ==
    /\ last_call.op \in LoadOps
    /\ returned = Skipped
    /\ \A i \in 1..Len(tables["edi_file_log"]) :
          tables["edi_file_log"][i].file_name # last_call.arg.file_name
    /\ tables["claim_lines"] # <<>>

-----------------------------------------------------------------------------
(* C31 *)

\* The rows of a table that belong to `owner` by the column `col`.
OwnedBy(rows, col, owner) ==
    SelectSeq(rows, LAMBDA row : DictGet(row, col, None) = owner)

\* Where among the owner's rows the row with the id `ref` stands: {0} for None,
\* no place for an id none of them holds.
Place(rows, col, owner, ref) ==
    IF ref = None THEN {0}
    ELSE {i \in 1..Len(OwnedBy(rows, col, owner)) : OwnedBy(rows, col, owner)[i].id = ref}

\* A child row without the ids the store handed out: its own id left out, and
\* the id of the line it names held as the place of that line among the lines
\* of the same header (payment).
WithoutIds(tbls, row) ==
    [k \in DOMAIN row \ {"id"} |->
        CASE k = "claim_line_id" ->
               Place(tbls["claim_lines"], "claim_header_id",
                     row["claim_header_id"], row[k])
          [] k = "claim_payment_line_id" ->
               Place(tbls["claim_payment_lines"], "claim_payment_id",
                     row["claim_payment_id"], row[k])
          [] OTHER -> row[k]]

ChildContents(tbls, t, col, owner) ==
    LET own == OwnedBy(tbls[t], col, owner)
    IN  [i \in 1..Len(own) |-> WithoutIds(tbls, own[i])]

\* The second of two calls with the same record left the children of `owner`
\* as they were, up to their ids, and every other row of the child tables as
\* it was.
SameChildren(old, new, child_tables, col, owner) ==
    \A t \in Range(child_tables) :
        /\ ChildContents(new, t, col, owner) = ChildContents(old, t, col, owner)
        /\ SelectSeq(new[t], LAMBDA row : DictGet(row, col, None) # owner)
             = SelectSeq(old[t], LAMBDA row : DictGet(row, col, None) # owner)

\* The step is a call with the record of the call before it, which returned.
SecondCall(op) ==
    /\ calls' = calls + 1
    /\ last_call'.op = op
    /\ last_call' = last_call
    /\ ~returned.raised

\* The natural key _load_single_payment upserts the payment of a record by.
RecordPaymentKey(payment_data) ==
    <<DictGet(payment_data["payment"], "file_name", None),
      DictGet(payment_data["payment"], "patient_control_number", <<>>),
      DictGet(payment_data["payment"], "check_number", None),
      DictGet(payment_data["payment"], "payment_date", None)>>

\* C31: a second call of _load_single_claim with the same record leaves, for the
\* record's claim header, the same rows in claim_lines, claim_diagnoses,
\* claim_dates, claim_providers and claim_references as the first call left, up
\* to the ids the store hands out, and leaves the rows of other headers as they
\* were; so does a second call of _load_single_payment for the record's payment
\* with claim_adjustments and claim_payment_lines.
C31_ReloadKeepsChildren ==
    [][/\ SecondCall("_load_single_claim") =>
            /\ returned' = returned
            /\ \E i \in 1..Len(tables'["claim_headers"]) :
                  tables'["claim_headers"][i].id = returned'.id
            /\ \A i \in 1..Len(tables'["claim_headers"]) :
                  HeaderKey(tables'["claim_headers"][i])
                      = HeaderKey(ClaimPayload(last_call'.arg["claim"],
                                               last_call'.org_id))
                  => /\ tables'["claim_headers"][i].id = returned'.id
                     /\ SameChildren(tables, tables', ClaimChildTables,
                                     "claim_header_id", returned'.id)
       /\ SecondCall("_load_single_payment") =>
            /\ \E i \in 1..Len(tables'["claim_payments"]) :
                  PaymentKey(tables'["claim_payments"][i])
                      = RecordPaymentKey(last_call'.arg)
            /\ \A i \in 1..Len(tables'["claim_payments"]) :
                  PaymentKey(tables'["claim_payments"][i])
                      = RecordPaymentKey(last_call'.arg)
                  => SameChildren(tables, tables', PaymentChildTables,
                                  "claim_payment_id",
                                  tables'["claim_payments"][i].id)]_vars

\* ClaimRecordA was loaded and loaded again: its one line holds the second id
\* of claim_lines, its line date names that line, and claim_dates holds the
\* date of another header.
C31_Witness ==
    /\ last_call = Call("_load_single_claim", ClaimRecordA, None)
    /\ returned = [raised |-> FALSE, id |-> <<"1">>]
    /\ Len(tables["claim_lines"]) = 1
    /\ tables["claim_lines"][1].id = <<"2">>
    /\ \E i, j \in 1..Len(tables["claim_dates"]) :
          /\ tables["claim_dates"][i].claim_header_id = <<"1">>
          /\ tables["claim_dates"][i].claim_line_id = <<"2">>
          /\ tables["claim_dates"][j].claim_header_id # <<"1">>

-----------------------------------------------------------------------------
(* C32 *)

\* The records of the file of a call of a loader, and whether _load_single_claim
\* (_load_single_payment) raises on the i-th.
RecordsOf(call) ==
    IF call.op = "load_837_file" THEN DictGet(call.arg, "claims", <<>>)
    ELSE DictGet(call.arg, "payments", <<>>)

Raises(call, i) ==
    IF call.op = "load_837_file" THEN "claim" \notin DOMAIN RecordsOf(call)[i]
    ELSE "payment" \notin DOMAIN RecordsOf(call)[i]

\* The store holds the header (payment) of the i-th record of the file.
RecordStored(tbls, call, i) ==
    IF call.op = "load_837_file"
    THEN \E k \in 1..Len(tbls["claim_headers"]) :
            HeaderKey(tbls["claim_headers"][k])
                = HeaderKey(ClaimPayload(RecordsOf(call)[i]["claim"], call.org_id))
    ELSE \E k \in 1..Len(tbls["claim_payments"]) :
            PaymentKey(tbls["claim_payments"][k]) = RecordPaymentKey(RecordsOf(call)[i])

\* C32: a call of load_837_file or load_835_file that is not skipped returns
\* one error for each record that raises, counts every other record as loaded
\* and has stored it, the records after a failing record too; loaded plus the
\* number of errors is the number of records of the file.
C32_EveryRecordAttempted ==
    [][LoadStep /\ returned' # Skipped =>
        LET n   == Len(RecordsOf(last_call'))
            bad == {i \in 1..n : Raises(last_call', i)}
        IN  /\ returned'.loaded + Len(returned'.errors) = n
            /\ Len(returned'.errors) = Cardinality(bad)
            /\ \A i \in (1..n) \ bad : RecordStored(tables', last_call', i)]_vars

\* A file of three records whose second raises was loaded: two loaded, one
\* error, and the header of the third record is in the store.
C32_Witness ==
    /\ last_call.op = "load_837_file"
    /\ returned # Skipped
    /\ returned.loaded = 2
    /\ Len(returned.errors) = 1
    /\ Raises(last_call, 2)
    /\ RecordStored(tables, last_call, 3)

-----------------------------------------------------------------------------
(* load_to_supabase.py: load_837_file and load_835_file, a record per step *)
(* The duplicate check and the log row, then a step per record of the file,  *)
(* then the scoring and the closing of the log row.  Besides the KeyError of *)
(* a record without 'claim' ('payment'), the store may refuse the first call *)
(* made for a record, an exception the loop catches like any other.          *)

\* loaded, errors, loaded_claim_ids, matched_counts and file_log_id of a call
EmptyLocals ==
    [file_log_id |-> None, loaded |-> 0, errors |-> <<>>, ids |-> <<>>,
     matched_counts |-> [k \in MATCH_STRATEGY_KEYS |-> 0]]

\* The call has not returned.
Pending == [pending |-> TRUE]

FileCalls ==
    {Call("load_837_file", f, o) : f \in Files837, o \in OrgIds}
    \cup {Call("load_835_file", f, None) : f \in Files835}

FileInit ==
    /\ LoadInit
    /\ load_pc = "idle"
    /\ record_index = 0
    /\ load_acc = EmptyLocals

\* The record of the iteration under way, and the name the except branch
\* gives it (lines 91, 283-284).
CurRecord == RecordsOf(last_call)[record_index + 1]

CurRecordName ==
    IF last_call.op = "load_837_file"
    THEN DictGet(DictGet(CurRecord, "claim", <<>>), "claim_id", <<"?">>)
    ELSE DictGet(DictGet(CurRecord, "payment", <<>>), "patient_control_number", <<"?">>)

\* Lines 59-83, 243-271: the duplicate check, the return of a duplicate, the
\* log row of a file that is none
BeginLoad ==
    /\ load_pc = "idle"
    /\ calls < MaxCalls
    /\ \E c \in FileCalls :
          /\ last_call' = c
          /\ IF Select(Store, "edi_file_log", DuplicateQuery(c.arg)) # <<>>
             THEN /\ returned' = Skipped
                  /\ UNCHANGED <<tables, sequences, load_pc, record_index, load_acc>>
             ELSE LET logged ==
                          Insert(Store, "edi_file_log",
                                 FileLogRow(c.arg,
                                            IF c.op = "load_837_file"
                                            THEN c.arg["file_type"] ELSE <<"835">>,
                                            c.org_id))
                  IN  /\ tables' = logged.tables
                      /\ sequences' = logged.sequences
                      /\ load_pc' = "records"
                      /\ record_index' = 0
                      /\ load_acc' = [EmptyLocals EXCEPT
                                         !.file_log_id = InsertedId(logged, "edi_file_log")]
                      /\ returned' = Pending
    /\ calls' = calls + 1
    /\ UNCHANGED <<model_exists, optional_columns>>
    /\ UNCHANGED <<worker_pc, worker_payload, worker_existing, worker_returned>>
    /\ UNCHANGED notStoreVars

\* errors.append(...) of the except branch
WithError(acc, name, error) ==
    [acc EXCEPT !.errors = Append(@, [record |-> name, error |-> error])]

\* Lines 85-91, 273-284: one iteration, _load_single_claim or
\* _load_single_payment returning or raising its KeyError
LoadRecord ==
    /\ load_pc = "records"
    /\ record_index < Len(RecordsOf(last_call))
    /\ IF last_call.op = "load_837_file"
       THEN \E o \in load_single_claim(Store, CurRecord, last_call.org_id) :
               /\ tables' = o.db.tables
               /\ sequences' = o.db.sequences
               /\ load_acc' =
                      IF o.raised THEN WithError(load_acc, CurRecordName, "KeyError")
                      ELSE [load_acc EXCEPT !.loaded = @ + 1, !.ids = Append(@, o.id)]
       ELSE \E o \in load_single_payment(Store, CurRecord, last_call.org_id,
                                         optional_columns) :
               /\ tables' = o.db.tables
               /\ sequences' = o.db.sequences
               /\ load_acc' =
                      IF o.raised THEN WithError(load_acc, CurRecordName, "KeyError")
                      ELSE [file_log_id    |-> load_acc.file_log_id,
                            loaded         |-> load_acc.loaded + 1,
                            errors         |-> load_acc.errors,
                            ids            |-> load_acc.ids,
                            matched_counts |->
                                [k \in MATCH_STRATEGY_KEYS |->
                                    IF k = o.match_strategy
                                    THEN load_acc.matched_counts[k] + 1
                                    ELSE load_acc.matched_counts[k]]]
    /\ record_index' = record_index + 1
    /\ UNCHANGED <<model_exists, optional_columns, calls, last_call, returned, load_pc>>
    /\ UNCHANGED <<worker_pc, worker_payload, worker_existing, worker_returned>>
    /\ UNCHANGED notStoreVars

\* Lines 90-91, 282-284: one iteration in which the store refuses the first
\* call made for the record
RecordRefused ==
    /\ load_pc = "records"
    /\ record_index < Len(RecordsOf(last_call))
    /\ "claim" \in DOMAIN CurRecord \/ "payment" \in DOMAIN CurRecord
    /\ load_acc' = WithError(load_acc, CurRecordName, "APIError")
    /\ record_index' = record_index + 1
    /\ UNCHANGED <<tables, sequences, model_exists, optional_columns, calls, last_call,
                   returned, load_pc>>
    /\ UNCHANGED <<worker_pc, worker_payload, worker_existing, worker_returned>>
    /\ UNCHANGED notStoreVars

\* Lines 93-115, 286-303: after the last record, the scoring of the loaded
\* claims, the closing of the log row, the return
CloseLoad ==
    /\ load_pc = "records"
    /\ record_index = Len(RecordsOf(last_call))
    /\ LET scored == IF last_call.op = "load_837_file"
                     THEN score_loaded_claims(Store, load_acc.ids, model_exists)
                     ELSE Store
           closed == FileLogClosed(scored, load_acc.file_log_id, load_acc.errors)
       IN  /\ tables' = closed.tables
           /\ sequences' = closed.sequences
    /\ returned' =
           IF last_call.op = "load_837_file"
           THEN [loaded |-> load_acc.loaded, errors |-> load_acc.errors]
           ELSE [loaded |-> load_acc.loaded, errors |-> load_acc.errors,
                 match_summary |-> load_acc.matched_counts]
    /\ load_pc' = "idle"
    /\ record_index' = 0
    /\ load_acc' = EmptyLocals
    /\ UNCHANGED <<model_exists, optional_columns, calls, last_call>>
    /\ UNCHANGED <<worker_pc, worker_payload, worker_existing, worker_returned>>
    /\ UNCHANGED notStoreVars

\* The steps of a load that has begun
FileStep == RecordRefused \/ LoadRecord \/ CloseLoad

FileNext == BeginLoad \/ LoadRecord \/ RecordRefused \/ CloseLoad

-----------------------------------------------------------------------------
(* C36 *)

LogRows == tables["edi_file_log"]

FileHash(call) == DictGet(call.arg, "file_hash", <<>>)

\* The tables that hold records: every table but the file log
RecordTables(tbls) == [t \in DOMAIN tbls \ {"edi_file_log"} |-> tbls[t]]

\* The hash of the file of the call is logged.
Logged(tbls, call) ==
    \E k \in 1..Len(tbls["edi_file_log"]) :
        tbls["edi_file_log"][k]["file_hash"] = FileHash(call)

\* C36: while the records of a file are loaded the hash of the file is logged
\* with status 'processing', and no record is stored at another time; a load
\* that has begun returns, and between loads every logged file has status
\* 'processed', with or without errors; a logged hash stays logged; a load of
\* a file whose hash is logged is skipped and stores nothing, so a record of
\* the file that is not stored stays so.
C36_LoggedThenProcessed ==
    /\ [](load_pc = "records" =>
            \E k \in 1..Len(LogRows) :
                /\ LogRows[k]["id"] = load_acc.file_log_id
                /\ LogRows[k]["file_hash"] = FileHash(last_call)
                /\ LogRows[k]["status"] = <<"processing">>)
    /\ [][RecordTables(tables') # RecordTables(tables) => load_pc = "records"]_vars
    /\ (load_pc = "records") ~> (load_pc = "idle")
    /\ [](load_pc = "idle" =>
            \A k \in 1..Len(LogRows) : LogRows[k]["status"] = <<"processed">>)
    /\ [][\A c \in FileCalls : Logged(tables, c) => Logged(tables', c)]_vars
    /\ [][load_pc = "idle" /\ calls' = calls + 1 /\ Logged(tables, last_call')
             => /\ returned' = Skipped
                /\ load_pc' = "idle"
                /\ tables' = tables
                /\ \A i \in 1..Len(RecordsOf(last_call')) :
                      ~Raises(last_call', i)
                          => (RecordStored(tables', last_call', i)
                                 = RecordStored(tables, last_call', i))]_vars

\* A file one of whose records the store refused is loaded again: the load is
\* skipped, its log row is 'processed', and the record is not stored.
C36_Witness ==
    /\ load_pc = "idle"
    /\ returned = Skipped
    /\ \E k \in 1..Len(LogRows) :
          /\ LogRows[k]["file_hash"] = FileHash(last_call)
          /\ LogRows[k]["status"] = <<"processed">>
          /\ \E i \in 1..Len(RecordsOf(last_call)) :
                /\ ~Raises(last_call, i)
                /\ ~RecordStored(tables, last_call, i)

-----------------------------------------------------------------------------
(* loader_persistence.py: upsert_claim_header and upsert_claim_payment run  *)
(* by two workers, a store call per step                                    *)
(* Each execute() is one call of the store; between the calls of a worker    *)
(* the other worker may make its own.                                        *)

Workers == {1, 2}

NoCall == [op |-> "none", payload |-> <<>>]

WorkerCalls ==
    {[op |-> "upsert_claim_header", payload |-> p] : p \in HeaderPayloads}
    \cup {[op |-> "upsert_claim_payment", payload |-> p] : p \in PaymentPayloads}

\* The table and the key query of a call
TableOf(c) == IF c.op = "upsert_claim_header" THEN "claim_headers" ELSE "claim_payments"

KeyQueryOf(c) ==
    IF c.op = "upsert_claim_header" THEN HeaderKeyQuery(c.payload)
    ELSE PaymentKeyQuery(c.payload)

WorkerInit ==
    /\ LoadInit
    /\ worker_pc = [w \in Workers |-> "idle"]
    /\ worker_payload = [w \in Workers |-> NoCall]
    /\ worker_existing = [w \in Workers |-> <<>>]
    /\ worker_returned = [w \in Workers |-> <<>>]

\* A worker is given a payload (lines 47, 87).
WorkerCall ==
    /\ calls < MaxCalls
    /\ \E w \in Workers :
          /\ worker_pc[w] = "idle"
          /\ \E c \in WorkerCalls :
                worker_payload' = [worker_payload EXCEPT ![w] = c]
          /\ worker_pc' = [worker_pc EXCEPT ![w] = "select"]
          /\ worker_existing' = [worker_existing EXCEPT ![w] = <<>>]
          /\ worker_returned' = [worker_returned EXCEPT ![w] = <<>>]
    /\ calls' = calls + 1
    /\ UNCHANGED <<tables, sequences, model_exists, optional_columns, last_call, returned>>
    /\ UNCHANGED <<load_pc, record_index, load_acc>>
    /\ UNCHANGED notStoreVars

\* Lines 54-70, 94-110: existing = query.execute(), at most one row
WorkerSelect ==
    /\ \E w \in Workers :
          /\ worker_pc[w] = "select"
          /\ LET found == Select(Store, TableOf(worker_payload[w]),
                                 KeyQueryOf(worker_payload[w]))
             IN  IF found = <<>>
                 THEN /\ worker_existing' = [worker_existing EXCEPT ![w] = <<>>]
                      /\ worker_pc' = [worker_pc EXCEPT ![w] = "insert"]
                 ELSE /\ \E row \in Range(found) :
                            worker_existing' = [worker_existing EXCEPT ![w] = <<row>>]
                      /\ worker_pc' = [worker_pc EXCEPT ![w] = "update"]
    /\ UNCHANGED <<tables, sequences, model_exists, optional_columns, calls, last_call,
                   returned>>
    /\ UNCHANGED <<worker_payload, worker_returned>>
    /\ UNCHANGED <<load_pc, record_index, load_acc>>
    /\ UNCHANGED notStoreVars

\* Lines 70-72, 110-112: the update by id, return (id, True)
WorkerUpdate ==
    /\ \E w \in Workers :
          /\ worker_pc[w] = "update"
          /\ LET header_id == worker_existing[w][1].id
                 updated == Update(Store, TableOf(worker_payload[w]),
                                   worker_payload[w].payload, <<Eq("id", header_id)>>)
             IN  /\ tables' = updated.tables
                 /\ sequences' = updated.sequences
                 /\ worker_returned' = [worker_returned EXCEPT
                                           ![w] = <<[id |-> header_id, existed |-> TRUE]>>]
          /\ worker_pc' = [worker_pc EXCEPT ![w] = "idle"]
    /\ UNCHANGED <<model_exists, optional_columns, calls, last_call, returned>>
    /\ UNCHANGED <<worker_payload, worker_existing>>
    /\ UNCHANGED <<load_pc, record_index, load_acc>>
    /\ UNCHANGED notStoreVars

\* Lines 74-75, 114-115: the insert, return (id, False)
WorkerInsert ==
    /\ \E w \in Workers :
          /\ worker_pc[w] = "insert"
          /\ LET created == Insert(Store, TableOf(worker_payload[w]),
                                   worker_payload[w].payload)
             IN  /\ tables' = created.tables
                 /\ sequences' = created.sequences
                 /\ worker_returned' =
                        [worker_returned EXCEPT
                            ![w] = <<[id |-> InsertedId(created, TableOf(worker_payload[w])),
                                      existed |-> FALSE]>>]
          /\ worker_pc' = [worker_pc EXCEPT ![w] = "idle"]
    /\ UNCHANGED <<model_exists, optional_columns, calls, last_call, returned>>
    /\ UNCHANGED <<worker_payload, worker_existing>>
    /\ UNCHANGED <<load_pc, record_index, load_acc>>
    /\ UNCHANGED notStoreVars

WorkersNext == WorkerCall \/ WorkerSelect \/ WorkerUpdate \/ WorkerInsert

-----------------------------------------------------------------------------
(* C37 *)

\* C37: when the workers have returned, no two rows of claim_headers and no
\* two rows of claim_payments hold the same natural key, whatever the order
\* of the workers' store calls.
C37_OneRowUnderWorkers ==
    (\A w \in Workers : worker_pc[w] = "idle")
        => OneRowPerKey(tables["claim_headers"], tables["claim_payments"])

-----------------------------------------------------------------------------
(* Specifications *)

CasIdle ==
    /\ seg = Idle /\ adjustments = Idle /\ cas_summary = Idle /\ cas_idx = Idle
    /\ cpc = Idle
DelimIdle == content = Idle /\ delimiters = Idle /\ dpc = Idle
PayIdle ==
    /\ segments = Idle /\ component_separator = Idle
    /\ seg_index = Idle
    /\ payments = Idle /\ current_payment = Idle /\ current_svc = Idle
    /\ payer_info = Idle /\ check_info = Idle /\ summary = Idle
    /\ parse_summary = Idle /\ ppc = Idle
SplitIdle == composite = Idle /\ declared_sep = Idle /\ parts = Idle /\ spc = Idle
EdiIdle ==
    /\ edi_source = Idle /\ edi_content = Idle /\ edi_segments = Idle
    /\ edi_delimiters = Idle /\ epc = Idle
ClaimIdle ==
    /\ file_segments = Idle /\ file_delimiters = Idle /\ blocks = Idle
    /\ metadata = Idle /\ billing_provider = Idle
    /\ block_index = Idle /\ block_pos = Idle
    /\ claim = Idle /\ lines = Idle /\ diagnoses = Idle
    /\ dates_header = Idle /\ dates_line = Idle /\ providers = Idle
    /\ references = Idle /\ current_line_number = Idle /\ in_header = Idle
    /\ sbr_data = Idle /\ payer_data = Idle
    /\ claims = Idle /\ file_result = Idle /\ xpc = Idle
FolderIdle ==
    /\ folder_type = Idle /\ listing = Idle /\ stdout_errors = Idle
    /\ folder_index = Idle /\ results = Idle /\ pending_error = Idle /\ fpc = Idle
TwiceIdle == hash_seed = Idle /\ run_no = Idle /\ first_run = Idle
LoadIdle ==
    /\ tables = Idle /\ sequences = Idle /\ model_exists = Idle
    /\ optional_columns = Idle /\ calls = Idle /\ last_call = Idle /\ returned = Idle
FileIdle == load_pc = Idle /\ record_index = Idle /\ load_acc = Idle
WorkerIdle ==
    /\ worker_pc = Idle /\ worker_payload = Idle /\ worker_existing = Idle
    /\ worker_returned = Idle
StepIdle == FileIdle /\ WorkerIdle
LaterIdle ==
    SplitIdle /\ EdiIdle /\ ClaimIdle /\ FolderIdle /\ TwiceIdle /\ LoadIdle
    /\ StepIdle
EarlierIdle == KeysIdle /\ MatchIdle /\ CasIdle /\ DelimIdle /\ PayIdle

\* claim_key_candidates on every bounded input
InitKeys == KeysInit /\ MatchIdle /\ CasIdle /\ DelimIdle /\ PayIdle /\ LaterIdle

SpecKeys == InitKeys /\ [][KeysNext]_vars

\* match_claim_header on every bounded input and store
InitMatch == MatchInit /\ KeysIdle /\ CasIdle /\ DelimIdle /\ PayIdle /\ LaterIdle

SpecMatch == InitMatch /\ [][MatchNext]_vars

InitCas == CasInit /\ KeysIdle /\ MatchIdle /\ DelimIdle /\ PayIdle /\ LaterIdle

InitDelim == DelimInit /\ KeysIdle /\ MatchIdle /\ CasIdle /\ PayIdle /\ LaterIdle

\* detect_delimiters on every bounded document
SpecDelim == InitDelim /\ [][DelimNext]_vars

\* parse_cas_adjustments on every bounded segment
SpecCas == InitCas /\ [][CasNext]_vars

InitCasLoop ==
    CasLoopInit /\ KeysIdle /\ MatchIdle /\ DelimIdle /\ PayIdle /\ LaterIdle

\* parse_cas_adjustments iteration by iteration; the call is not suspended, so
\* a step that can be taken is taken
SpecCasLoop == InitCasLoop /\ [][CasLoopNext]_vars /\ WF_vars(CasLoopNext)

InitSplit ==
    SplitInit /\ EarlierIdle /\ EdiIdle /\ ClaimIdle /\ FolderIdle /\ TwiceIdle
    /\ LoadIdle /\ StepIdle

\* split_composite on every bounded value and separator
SpecSplit == InitSplit /\ [][SplitNext]_vars

InitEdi ==
    EdiInit /\ EarlierIdle /\ SplitIdle /\ ClaimIdle /\ FolderIdle /\ TwiceIdle
    /\ LoadIdle /\ StepIdle

\* parse_edi_content on every bounded document
SpecEdi == InitEdi /\ [][EdiNext]_vars

InitPay == PayInit /\ KeysIdle /\ MatchIdle /\ CasIdle /\ DelimIdle /\ LaterIdle

\* extract_payments on every bounded document
SpecPay == InitPay /\ [][PayNext]_vars

InitClaim ==
    ClaimInit /\ EarlierIdle /\ SplitIdle /\ EdiIdle /\ FolderIdle /\ TwiceIdle
    /\ LoadIdle /\ StepIdle

\* parse_837p_file on every bounded tokenized document
SpecClaim == InitClaim /\ [][ClaimNext]_vars

InitFolder ==
    FolderInit /\ EarlierIdle /\ SplitIdle /\ EdiIdle /\ ClaimIdle /\ TwiceIdle
    /\ LoadIdle /\ StepIdle

\* parse_folder on every bounded listing
SpecFolder == InitFolder /\ [][FolderNext]_vars

InitTwice == TwiceInit /\ KeysIdle /\ MatchIdle /\ CasIdle /\ DelimIdle
             /\ SplitIdle /\ EdiIdle /\ FolderIdle /\ LoadIdle /\ StepIdle

\* every bounded document decoded twice
SpecTwice == InitTwice /\ [][TwiceNext]_vars

InitLoad ==
    LoadInit /\ EarlierIdle /\ SplitIdle /\ EdiIdle /\ ClaimIdle /\ FolderIdle
    /\ TwiceIdle /\ StepIdle

\* every bounded run of calls of the loader, from an empty store
SpecLoad == InitLoad /\ [][LoadNext]_vars

\* every bounded run of calls that load one record, from an empty store
SpecRecord == InitLoad /\ [][RecordNext]_vars

InitFile ==
    FileInit /\ EarlierIdle /\ SplitIdle /\ EdiIdle /\ ClaimIdle /\ FolderIdle
    /\ TwiceIdle /\ WorkerIdle

\* every bounded run of loads of files, a record per step; a load that has
\* begun is not suspended: its next step is taken
SpecFile == InitFile /\ [][FileNext]_vars /\ WF_vars(FileStep)

InitWorkers ==
    WorkerInit /\ EarlierIdle /\ SplitIdle /\ EdiIdle /\ ClaimIdle /\ FolderIdle
    /\ TwiceIdle /\ FileIdle

\* every interleaving of the store calls of two workers, from an empty store
SpecWorkers == InitWorkers /\ [][WorkersNext]_vars

=============================================================================
